---------------------------- MODULE Spec2Model ----------------------------
(***************************************************************************)
(* Model of the HDL-to-WebAssembly simulator core (hdlwasm.ts): the state  *)
(* layout, the runtime driver (powercycle / eval / tick / tick2 /          *)
(* saveState / loadState), the state proxy, and the code sequences the     *)
(* generator emits for scalar comparisons and for wide (> 64 bit)          *)
(* arithmetic, shifts and comparisons.                                     *)
(*                                                                         *)
(* Encoding of WebAssembly i32 values.  An i32 is kept as the integer in   *)
(* -2^31 .. 2^31-1 that has the same 32 bits (what JavaScript calls        *)
(* x | 0).  Unsigned views are taken through the 16-bit halves Hi16/Lo16,  *)
(* so no intermediate result leaves the range of the model checker's       *)
(* integers while every operation keeps its 32-bit wrap-around.            *)
(***************************************************************************)
EXTENDS Integers, Sequences, FiniteSets, TLC

----------------------------------------------------------------------------
(* WebAssembly i32 instructions *)

MinI32 == -2147483647 - 1

MaxI32 == 2147483647

Half == 65536

Pow2(k) == 2 ^ k

Lo16(x) == x % Half

Hi16(x) == (x \div Half) % Half

MkI32(hi, lo) == (IF hi >= 32768 THEN hi - Half ELSE hi) * Half + lo

RECURSIVE BitAnd(_, _, _)
BitAnd(a, b, n) ==
    IF n = 0 THEN 0
    ELSE (IF a % 2 = 1 /\ b % 2 = 1 THEN 1 ELSE 0) + 2 * BitAnd(a \div 2, b \div 2, n - 1)

RECURSIVE BitOr(_, _, _)
BitOr(a, b, n) ==
    IF n = 0 THEN 0
    ELSE (IF a % 2 = 1 \/ b % 2 = 1 THEN 1 ELSE 0) + 2 * BitOr(a \div 2, b \div 2, n - 1)

RECURSIVE BitXor(_, _, _)
BitXor(a, b, n) ==
    IF n = 0 THEN 0
    ELSE (IF (a % 2) # (b % 2) THEN 1 ELSE 0) + 2 * BitXor(a \div 2, b \div 2, n - 1)

I32And(a, b) == MkI32(BitAnd(Hi16(a), Hi16(b), 16), BitAnd(Lo16(a), Lo16(b), 16))

I32Or(a, b) == MkI32(BitOr(Hi16(a), Hi16(b), 16), BitOr(Lo16(a), Lo16(b), 16))

I32Xor(a, b) == MkI32(BitXor(Hi16(a), Hi16(b), 16), BitXor(Lo16(a), Lo16(b), 16))

I32Add(a, b) ==
    LET lo == Lo16(a) + Lo16(b)
        hi == Hi16(a) + Hi16(b) + (lo \div Half)
    IN  MkI32(hi % Half, lo % Half)

I32Sub(a, b) ==
    LET lo == Lo16(a) - Lo16(b)
        hi == Hi16(a) - Hi16(b) + (lo \div Half)
    IN  MkI32(hi % Half, lo % Half)

\* i32.shl: the shift count is taken modulo 32
I32Shl(a, cnt) ==
    LET k  == cnt % 32
        lo == Lo16(a)
        hi == Hi16(a)
    IN  IF k < 16
        THEN MkI32((hi * Pow2(k) + ((lo * Pow2(k)) \div Half)) % Half, (lo * Pow2(k)) % Half)
        ELSE MkI32((lo * Pow2(k - 16)) % Half, 0)

\* i32.shr_u: the shift count is taken modulo 32
I32ShrU(a, cnt) ==
    LET k  == cnt % 32
        lo == Lo16(a)
        hi == Hi16(a)
    IN  IF k < 16
        THEN MkI32(hi \div Pow2(k), (lo \div Pow2(k)) + (hi % Pow2(k)) * Pow2(16 - k))
        ELSE MkI32(0, hi \div Pow2(k - 16))

\* i32.shr_s: the shift count is taken modulo 32
I32ShrS(a, cnt) ==
    LET k == cnt % 32
    IN  IF k = 31 THEN (IF a < 0 THEN -1 ELSE 0) ELSE a \div Pow2(k)

I32LtS(a, b) == IF a < b THEN 1 ELSE 0

I32GtS(a, b) == IF a > b THEN 1 ELSE 0

I32GeS(a, b) == IF a >= b THEN 1 ELSE 0

I32LeS(a, b) == IF a <= b THEN 1 ELSE 0

I32LtU(a, b) == IF (a >= 0) = (b >= 0) THEN (IF a < b THEN 1 ELSE 0) ELSE (IF a >= 0 THEN 1 ELSE 0)

I32GtU(a, b) == I32LtU(b, a)

I32Eq(a, b) == IF a = b THEN 1 ELSE 0

I32Eqz(a) == IF a = 0 THEN 1 ELSE 0

\* select(cond, ifTrue, ifFalse): all three operands have been evaluated
Select(c, t, f) == IF c # 0 THEN t ELSE f


\* F of the value of v: the value is computed once, before F uses it
With(v, F(_)) == CHOOSE y \in {F(x) : x \in {v}} : TRUE

----------------------------------------------------------------------------
(* Type and size model, state layout (Struct, genTypes, genMemory).        *)
(* A data type is [left, count]: a logic type [left:0] when count = 0, an  *)
(* array of count such elements otherwise.  A vardef is                    *)
(* [name, left, count, isOutput, isConst, constValue].                     *)

TraceBufferSize == 1044480

PageSize == 65536

TRACERECLEN == "$$treclen"

TRACEOFS == "$$tofs"

TRACEEND == "$$tend"

TRACEBUF == "$$tbuf"

\* a size in 32-bit chunks for the types wider than 64 bits
LogicSize_chunks(left) ==
    IF left <= 7 THEN 1
    ELSE IF left <= 15 THEN 2
    ELSE IF left <= 31 THEN 4
    ELSE IF left <= 63 THEN 8
    ELSE ((left + 32) \div 32) * 4

LogicSize(left) ==
    IF left <= 7 THEN 1
    ELSE IF left <= 15 THEN 2
    ELSE IF left <= 31 THEN 4
    ELSE IF left <= 63 THEN 8
    ELSE (left \div 64) * 8 + 8

getDataTypeSize(dt) ==
    IF dt.count = 0 THEN LogicSize(dt.left) ELSE dt.count * LogicSize(dt.left)

isWideType(dt) == dt.count = 0 /\ dt.left > 63

getNumChunks(dt) == (dt.left + 1 + 31) \div 32

getAlignmentForSize(size) ==
    IF size <= 1 THEN 1
    ELSE IF size <= 2 THEN 2
    ELSE IF size <= 4 THEN 4
    ELSE 8

\* an alignTo that leaves the length as it is
alignTo_none(len, align) == len

RECURSIVE alignTo(_, _)
alignTo(len, align) == IF len % align # 0 THEN alignTo(len + 1, align) ELSE len

NoType == [left |-> -1, count |-> 0]

EmptyStruct == [len |-> 0, vars |-> << >>, locals |-> << >>]

\* Struct.addEntry: vars is the dictionary name -> record, locals the list;
\* constval is null (isConst FALSE) until addVar sets it
addEntry(st, name, size, dt) ==
    LET off == alignTo(st.len, getAlignmentForSize(size))
        rec == [name |-> name, type |-> dt, size |-> size, offset |-> off,
                isConst |-> FALSE, constval |-> 0]
    IN  [len    |-> off + size,
         vars   |-> (name :> rec) @@ st.vars,
         locals |-> Append(st.locals, rec)]

\* Struct.addVar: rec.constval = vardef.constValue
addVar(st, vd) ==
    LET s   == addEntry(st, vd.name, getDataTypeSize([left |-> vd.left, count |-> vd.count]),
                        [left |-> vd.left, count |-> vd.count])
        rec == [s.vars[vd.name] EXCEPT !.isConst = vd.isConst, !.constval = vd.constValue]
    IN  [s EXCEPT !.vars[vd.name] = rec, !.locals[Len(s.locals)] = rec]

RECURSIVE addVars(_, _)
addVars(st, vds) ==
    IF vds = << >> THEN st ELSE addVars(addVar(st, Head(vds)), Tail(vds))

\* Struct.lookup
lookup(st, name) == st.vars[name]

HasVar(st, name) == name \in DOMAIN st.vars

getVarDefSortKey(vd) ==
    getDataTypeSize([left |-> vd.left, count |-> vd.count])
      + (IF vd.isOutput THEN 0 ELSE 1000000)

\* Array.prototype.sort is stable: equal keys keep their insertion order
RECURSIVE InsertSorted(_, _)
InsertSorted(sorted, vd) ==
    IF sorted = << >> THEN << vd >>
    ELSE IF getVarDefSortKey(Head(sorted)) <= getVarDefSortKey(vd)
         THEN << Head(sorted) >> \o InsertSorted(Tail(sorted), vd)
         ELSE << vd >> \o sorted

RECURSIVE SortVarDefs(_)
SortVarDefs(vds) ==
    IF vds = << >> THEN << >>
    ELSE InsertSorted(SortVarDefs(SubSeq(vds, 1, Len(vds) - 1)), vds[Len(vds)])

\* genTypes: vardefs are the module's variables in declaration order,
\* pool the constant pool's (<< >> with hasPool FALSE when there is none)
genTypes(vardefs, hasPool, pool) ==
    With(SortVarDefs(SelectSeq(vardefs, LAMBDA vd : ~vd.isConst)), LAMBDA sorted :
    With(addVars(EmptyStruct, SelectSeq(sorted, LAMBDA vd : vd.isOutput)), LAMBDA s1 :
    With(IF s1.len = 0 THEN addEntry(s1, "___", 1, NoType) ELSE s1, LAMBDA s2 :
    With(addVars([s2 EXCEPT !.len = alignTo(s2.len, 8)],
                 SelectSeq(sorted, LAMBDA vd : ~vd.isOutput)), LAMBDA s3 :
    With(IF hasPool
         THEN addVars(addVars([s3 EXCEPT !.len = alignTo(s3.len, 8)],
                              SelectSeq(vardefs, LAMBDA vd : vd.isConst)), pool)
         ELSE [s3 EXCEPT !.len = alignTo(s3.len, 8)], LAMBDA s4 :
    [globals |-> addEntry(addEntry(addEntry(addEntry([s4 EXCEPT !.len = alignTo(s4.len, 8)],
                                                     TRACERECLEN, 4, NoType),
                                            TRACEOFS, 4, NoType),
                                   TRACEEND, 4, NoType),
                          TRACEBUF, TraceBufferSize, NoType),
     outputbytes |-> alignTo(s2.len, 8),
     statebytes  |-> alignTo(s3.len, 8)])))))

\* genMemory: size of the linear memory in bytes (whole 64 KiB pages)
genMemory(globals) == ((globals.len + PageSize - 1) \div PageSize) * PageSize

VarDef(name, bits, isOutput) ==
    [name |-> name, left |-> bits - 1, count |-> 0, isOutput |-> isOutput,
     isConst |-> FALSE, constValue |-> 0]

\* an HDLConstant as makeConst builds it from a number or a BigInt: cvalue
\* is a number (the low 32 bits of a BigInt), bigvalue the full value in
\* 32-bit chunks
makeConstValue(chunks) == [isNumber |-> TRUE, cvalue |-> chunks[1], bigvalue |-> chunks]

\* an HDLConstant of a large value with no number in cvalue
makeBigConstValue(chunks) == [isNumber |-> FALSE, cvalue |-> 0, bigvalue |-> chunks]

\* a vardef with a constValue (a constant of the module or of the pool)
ConstDef(name, bits, value) ==
    [name |-> name, left |-> bits - 1, count |-> 0, isOutput |-> FALSE,
     isConst |-> TRUE, constValue |-> makeConstValue(<< value >>)]

\* a vardef whose constValue is the HDLConstant c
ConstDefOf(name, bits, c) ==
    [name |-> name, left |-> bits - 1, count |-> 0, isOutput |-> FALSE,
     isConst |-> TRUE, constValue |-> c]


----------------------------------------------------------------------------
(* Linear memory.  A memory is a function from byte addresses to bytes     *)
(* over the addresses the model keeps explicitly; every other address      *)
(* inside the allocated pages still holds the zero it was created with.    *)

ByteAt(mem, x) == IF x \in DOMAIN mem THEN mem[x] ELSE 0

\* i32.load8_u
LdB(mem, addr) == ByteAt(mem, addr)

\* i32.load (little endian)
LdW(mem, addr) ==
    MkI32(ByteAt(mem, addr + 3) * 256 + ByteAt(mem, addr + 2),
          ByteAt(mem, addr + 1) * 256 + ByteAt(mem, addr))

\* i32.store8
StB(mem, addr, v) == [mem EXCEPT ![addr] = Lo16(v) % 256]

\* i32.store16
StH(mem, addr, v) ==
    [mem EXCEPT ![addr] = Lo16(v) % 256, ![addr + 1] = Lo16(v) \div 256]

\* i32.store (little endian)
StW(mem, addr, v) ==
    [mem EXCEPT ![addr] = Lo16(v) % 256, ![addr + 1] = Lo16(v) \div 256,
                ![addr + 2] = Hi16(v) % 256, ![addr + 3] = Hi16(v) \div 256]

\* an access of 4 bytes at the i32 address addr stays inside the memory
InBounds(addr, membytes) == addr >= 0 /\ addr + 4 <= membytes

\* the chunks of an n-chunk wide value stored at addr
RdChunks(mem, addr, n) == [i \in 1..n |-> LdW(mem, addr + 4 * (i - 1))]

RECURSIVE WrChunks(_, _, _)
WrChunks(mem, addr, chunks) ==
    IF chunks = << >> THEN mem
    ELSE WrChunks(StW(mem, addr, Head(chunks)), addr + 4, Tail(chunks))

----------------------------------------------------------------------------
(* Code emitted for wide (> 64 bit) operations, executed on a memory.      *)
(* Addresses are the constants address2wasm produces for global variables. *)

\* wideAdd.  The expression overflow1 reads the local $$sum where it is
\* placed in the emitted tree, that is inside the assignment to $$carry,
\* after $$sum has been overwritten with sum + carry.
RECURSIVE wideAddFrom(_, _, _, _, _, _, _)
wideAddFrom(mem, leftAddr, rightAddr, destAddr, numChunks, i, carry) ==
    IF i = numChunks THEN mem
    ELSE LET offset    == i * 4
             left      == LdW(mem, leftAddr + offset)
             sum1      == I32Add(left, LdW(mem, rightAddr + offset))
             sum       == I32Add(sum1, carry)
             mem2      == StW(mem, destAddr + offset, sum)
             overflow1 == I32LtU(sum, left)
             overflow2 == I32And(I32Eq(sum, 0), carry)
             carry2    == IF i < numChunks - 1 THEN I32Or(overflow1, overflow2) ELSE carry
         IN  wideAddFrom(mem2, leftAddr, rightAddr, destAddr, numChunks, i + 1, carry2)

wideAdd(mem, leftAddr, rightAddr, destAddr, numChunks) ==
    wideAddFrom(mem, leftAddr, rightAddr, destAddr, numChunks, 0, 0)

\* wideSub.  Per chunk: $$left2 and $$right are loaded, $$diff = left -
\* right, then $$diff = $$diff - $$borrow is stored; underflow1 reads the
\* two operand locals and underflow2 reads $$diff after the borrow has been
\* subtracted, both inside the assignment to $$borrow.  borrows records the
\* value of $$borrow after each chunk but the last.
RECURSIVE wideSubFrom(_, _, _, _, _, _, _, _)
wideSubFrom(mem, leftAddr, rightAddr, destAddr, numChunks, i, borrow, borrows) ==
    IF i = numChunks THEN [mem |-> mem, borrows |-> borrows]
    ELSE LET offset     == i * 4
             left       == LdW(mem, leftAddr + offset)
             right      == LdW(mem, rightAddr + offset)
             diff       == I32Sub(I32Sub(left, right), borrow)
             underflow1 == I32LtU(left, right)
             underflow2 == I32And(I32Eq(I32Add(diff, borrow), 0), borrow)
         IN  IF i < numChunks - 1
             THEN wideSubFrom(StW(mem, destAddr + offset, diff), leftAddr, rightAddr, destAddr,
                              numChunks, i + 1, I32Or(underflow1, underflow2),
                              Append(borrows, I32Or(underflow1, underflow2)))
             ELSE wideSubFrom(StW(mem, destAddr + offset, diff), leftAddr, rightAddr, destAddr,
                              numChunks, i + 1, borrow, borrows)

\* a subtraction of each chunk on its own, with no borrow between chunks
wideSub_chunkwise(mem, leftAddr, rightAddr, destAddr, numChunks) ==
    [mem |-> WrChunks(mem, destAddr,
                      [i \in 1..numChunks |->
                          I32Sub(LdW(mem, leftAddr + 4 * (i - 1)),
                                 LdW(mem, rightAddr + 4 * (i - 1)))]),
     borrows |-> [i \in 1..(numChunks - 1) |-> 0]]

wideSub(mem, leftAddr, rightAddr, destAddr, numChunks) ==
    wideSubFrom(mem, leftAddr, rightAddr, destAddr, numChunks, 0, 0, << >>)

\* wideLt: nested select chain built from the least significant chunk up
RECURSIVE wideLtFrom(_, _, _, _, _, _, _)
wideLtFrom(mem, leftAddr, rightAddr, numChunks, signed, i, result) ==
    IF i = numChunks THEN result
    ELSE LET isMsb      == i = numChunks - 1
             leftChunk  == LdW(mem, leftAddr + i * 4)
             rightChunk == LdW(mem, rightAddr + i * 4)
             lt == IF isMsb /\ signed THEN I32LtS(leftChunk, rightChunk)
                                      ELSE I32LtU(leftChunk, rightChunk)
             gt == IF isMsb /\ signed THEN I32GtS(leftChunk, rightChunk)
                                      ELSE I32GtU(leftChunk, rightChunk)
         IN  wideLtFrom(mem, leftAddr, rightAddr, numChunks, signed, i + 1,
                        Select(lt, 1, Select(gt, 0, result)))

wideLt(mem, leftAddr, rightAddr, numChunks, signed) ==
    wideLtFrom(mem, leftAddr, rightAddr, numChunks, signed, 0, 0)

RECURSIVE wideGtFrom(_, _, _, _, _, _, _)
wideGtFrom(mem, leftAddr, rightAddr, numChunks, signed, i, result) ==
    IF i = numChunks THEN result
    ELSE LET isMsb      == i = numChunks - 1
             leftChunk  == LdW(mem, leftAddr + i * 4)
             rightChunk == LdW(mem, rightAddr + i * 4)
             lt == IF isMsb /\ signed THEN I32LtS(leftChunk, rightChunk)
                                      ELSE I32LtU(leftChunk, rightChunk)
             gt == IF isMsb /\ signed THEN I32GtS(leftChunk, rightChunk)
                                      ELSE I32GtU(leftChunk, rightChunk)
         IN  wideGtFrom(mem, leftAddr, rightAddr, numChunks, signed, i + 1,
                        Select(gt, 1, Select(lt, 0, result)))

wideGt(mem, leftAddr, rightAddr, numChunks, signed) ==
    wideGtFrom(mem, leftAddr, rightAddr, numChunks, signed, 0, 0)

wideLte(mem, leftAddr, rightAddr, numChunks, signed) ==
    I32Eqz(wideGt(mem, leftAddr, rightAddr, numChunks, signed))

wideGte(mem, leftAddr, rightAddr, numChunks, signed) ==
    I32Eqz(wideLt(mem, leftAddr, rightAddr, numChunks, signed))


\* wideShiftLeftConst: one store per chunk, from the most significant down
RECURSIVE wideShiftLeftConstFrom(_, _, _, _, _, _)
wideShiftLeftConstFrom(mem, destAddr, srcAddr, numChunks, shiftAmount, i) ==
    IF i < 0 THEN mem
    ELSE LET chunkShift == shiftAmount \div 32
             bitShift   == shiftAmount % 32
             srcIdx     == i - chunkShift
             srcIdx2    == srcIdx - 1
             offset     == i * 4
             highPart   == I32Shl(LdW(mem, srcAddr + srcIdx * 4), bitShift)
             lowPart    == I32ShrU(LdW(mem, srcAddr + srcIdx2 * 4), 32 - bitShift)
             value      == IF srcIdx < 0 THEN 0
                           ELSE IF bitShift = 0 THEN LdW(mem, srcAddr + srcIdx * 4)
                           ELSE IF srcIdx2 >= 0 THEN I32Or(highPart, lowPart)
                           ELSE highPart
         IN  wideShiftLeftConstFrom(StW(mem, destAddr + offset, value),
                                    destAddr, srcAddr, numChunks, shiftAmount, i - 1)

\* a left shift that moves whole chunks only, dropping the bit shift
wideShiftLeftConst_chunks(mem, destAddr, srcAddr, numChunks, shiftAmount) ==
    wideShiftLeftConstFrom(mem, destAddr, srcAddr, numChunks, (shiftAmount \div 32) * 32,
                           numChunks - 1)

wideShiftLeftConst(mem, destAddr, srcAddr, numChunks, shiftAmount) ==
    wideShiftLeftConstFrom(mem, destAddr, srcAddr, numChunks, shiftAmount, numChunks - 1)

\* wideShiftRightConst: one store per chunk, from the least significant up;
\* signExtend is an expression, evaluated where it is used
wideShiftRightConstChunk(mem, srcAddr, numChunks, shiftAmount, signed, i) ==
    LET chunkShift == shiftAmount \div 32
        bitShift   == shiftAmount % 32
        srcIdx     == i + chunkShift
        srcIdx2    == srcIdx + 1
        signExtend == IF signed
                      THEN I32ShrS(LdW(mem, srcAddr + (numChunks - 1) * 4), 31)
                      ELSE 0
        lowPart    == I32ShrU(LdW(mem, srcAddr + srcIdx * 4), bitShift)
    IN  IF srcIdx >= numChunks THEN signExtend
        ELSE IF bitShift = 0 THEN LdW(mem, srcAddr + srcIdx * 4)
        ELSE IF srcIdx2 < numChunks
             THEN I32Or(lowPart, I32Shl(LdW(mem, srcAddr + srcIdx2 * 4), 32 - bitShift))
        ELSE IF signed
             THEN I32Or(lowPart, I32Shl(signExtend, 32 - bitShift))
        ELSE lowPart

RECURSIVE wideShiftRightConstFrom(_, _, _, _, _, _, _)
wideShiftRightConstFrom(mem, destAddr, srcAddr, numChunks, shiftAmount, signed, i) ==
    IF i >= numChunks THEN mem
    ELSE wideShiftRightConstFrom(
             StW(mem, destAddr + i * 4,
                 wideShiftRightConstChunk(mem, srcAddr, numChunks, shiftAmount, signed, i)),
             destAddr, srcAddr, numChunks, shiftAmount, signed, i + 1)

\* the same stores issued from the most significant chunk down
RECURSIVE wideShiftRightConstDown(_, _, _, _, _, _, _)
wideShiftRightConstDown(mem, destAddr, srcAddr, numChunks, shiftAmount, signed, i) ==
    IF i < 0 THEN mem
    ELSE wideShiftRightConstDown(
             StW(mem, destAddr + i * 4,
                 wideShiftRightConstChunk(mem, srcAddr, numChunks, shiftAmount, signed, i)),
             destAddr, srcAddr, numChunks, shiftAmount, signed, i - 1)

wideShiftRightConst_down(mem, destAddr, srcAddr, numChunks, shiftAmount, signed) ==
    wideShiftRightConstDown(mem, destAddr, srcAddr, numChunks, shiftAmount, signed,
                            numChunks - 1)

wideShiftRightConst(mem, destAddr, srcAddr, numChunks, shiftAmount, signed) ==
    wideShiftRightConstFrom(mem, destAddr, srcAddr, numChunks, shiftAmount, signed, 0)

\* wideShiftLeftVar: a loop over i = numChunks-1 .. 0.  Every operand of a
\* select is evaluated, so both source loads are executed on every
\* iteration; a load outside the memory traps and ends the function.
\* The result is [mem, fault].
RECURSIVE wideShiftLeftVarLoop(_, _, _, _, _, _, _)
wideShiftLeftVarLoop(mem, membytes, destAddr, srcAddr, chunkShift, bitShift, i) ==
    LET srcIdx         == I32Sub(i, chunkShift)
        srcIdxNegative == I32LtS(srcIdx, 0)
        bitShiftZero   == I32Eqz(bitShift)
        srcChunkAddr   == I32Add(srcAddr, I32Shl(srcIdx, 2))
        srcChunkAddr2  == I32Add(srcAddr, I32Shl(I32Sub(srcIdx, 1), 2))
        highPart       == I32Shl(LdW(mem, srcChunkAddr), bitShift)
        lowPart        == I32ShrU(LdW(mem, srcChunkAddr2), I32Sub(32, bitShift))
        combinedWithLow == I32Or(highPart, lowPart)
        srcIdxPositive == I32GtS(srcIdx, 0)
        shiftedValue   == Select(srcIdxPositive, combinedWithLow, highPart)
        copyOrShift    == Select(bitShiftZero, LdW(mem, srcChunkAddr), shiftedValue)
        value          == Select(srcIdxNegative, 0, copyOrShift)
        destChunkAddr  == I32Add(destAddr, I32Shl(i, 2))
        i2             == I32Sub(i, 1)
    IN  IF ~InBounds(srcChunkAddr, membytes) \/ ~InBounds(srcChunkAddr2, membytes)
        THEN [mem |-> mem, fault |-> TRUE]
        ELSE IF I32GeS(i2, 0) # 0
             THEN wideShiftLeftVarLoop(StW(mem, destChunkAddr, value), membytes,
                                       destAddr, srcAddr, chunkShift, bitShift, i2)
             ELSE [mem |-> StW(mem, destChunkAddr, value), fault |-> FALSE]

wideShiftLeftVar(mem, membytes, destAddr, srcAddr, numChunks, shiftAmount) ==
    wideShiftLeftVarLoop(mem, membytes, destAddr, srcAddr,
                         I32ShrU(shiftAmount, 5), I32And(shiftAmount, 31), numChunks - 1)

\* wideShiftRightVar: a loop over i = 0 .. numChunks-1, same evaluation rule
RECURSIVE wideShiftRightVarLoop(_, _, _, _, _, _, _, _, _)
wideShiftRightVarLoop(mem, membytes, destAddr, srcAddr, numChunks, chunkShift, bitShift, signExtend, i) ==
    LET srcIdx           == I32Add(i, chunkShift)
        srcIdxOutOfRange == I32GeS(srcIdx, numChunks)
        bitShiftZero     == I32Eqz(bitShift)
        srcChunkAddr     == I32Add(srcAddr, I32Shl(srcIdx, 2))
        srcChunkAddr2    == I32Add(srcAddr, I32Shl(I32Add(srcIdx, 1), 2))
        lowPart          == I32ShrU(LdW(mem, srcChunkAddr), bitShift)
        highPart         == I32Shl(LdW(mem, srcChunkAddr2), I32Sub(32, bitShift))
        signedHighPart   == I32Shl(signExtend, I32Sub(32, bitShift))
        srcIdx2InRange   == I32LtS(I32Add(srcIdx, 1), numChunks)
        selectedHighPart == Select(srcIdx2InRange, highPart, signedHighPart)
        combinedWithHigh == I32Or(lowPart, selectedHighPart)
        copyOrShift      == Select(bitShiftZero, LdW(mem, srcChunkAddr), combinedWithHigh)
        value            == Select(srcIdxOutOfRange, signExtend, copyOrShift)
        destChunkAddr    == I32Add(destAddr, I32Shl(i, 2))
        i2               == I32Add(i, 1)
    IN  IF ~InBounds(srcChunkAddr, membytes) \/ ~InBounds(srcChunkAddr2, membytes)
        THEN [mem |-> mem, fault |-> TRUE]
        ELSE IF I32LtS(i2, numChunks) # 0
             THEN wideShiftRightVarLoop(StW(mem, destChunkAddr, value), membytes, destAddr,
                                        srcAddr, numChunks, chunkShift, bitShift, signExtend, i2)
             ELSE [mem |-> StW(mem, destChunkAddr, value), fault |-> FALSE]

wideShiftRightVar(mem, membytes, destAddr, srcAddr, numChunks, shiftAmount, signed) ==
    wideShiftRightVarLoop(mem, membytes, destAddr, srcAddr, numChunks,
                          I32ShrU(shiftAmount, 5), I32And(shiftAmount, 31),
                          IF signed THEN I32ShrS(LdW(mem, srcAddr + (numChunks - 1) * 4), 31)
                                    ELSE 0,
                          0)


----------------------------------------------------------------------------
(* State proxy (defineProperty).  A host value is [t, d]: an unsigned      *)
(* integer (t = "int", a JavaScript number or BigInt) given by its         *)
(* little-endian base-2^32 digits d, or a typed-array view                 *)
(* (t = "Uint8Array", "Uint16Array", "Uint32Array") given by its elements. *)

HostInt(digits) == [t |-> "int", d |-> digits]

Digit(digits, i) == IF i <= Len(digits) THEN digits[i] ELSE 0

hasType(vref) == vref.type.left >= 0

\* (1 << 31) - 1 is -2^31 - 1, which "&" takes as the 32-bit 0x7FFFFFFF
proxyMask(vref) ==
    IF hasType(vref) /\ vref.type.left < 30 THEN Pow2(vref.type.left + 1) - 1
    ELSE IF hasType(vref) /\ vref.type.left = 30 THEN MaxI32
    ELSE -1

proxyIsWide(vref) == hasType(vref) /\ vref.type.count = 0 /\ vref.type.left > 63

proxyNumChunks(vref) == IF proxyIsWide(vref) THEN (vref.type.left + 1 + 31) \div 32 ELSE 0

\* chunk i (from 0) of a mask one bit short, (1n << left) - 1n
bigMaskChunk_narrow(vref, i) ==
    LET topbits == vref.type.left - 32 * (proxyNumChunks(vref) - 1)
    IN  IF i < proxyNumChunks(vref) - 1 THEN -1
        ELSE IF topbits = 31 THEN MaxI32
        ELSE Pow2(topbits) - 1

\* chunk i (from 0) of bigMask = (1n << (left + 1)) - 1n
bigMaskChunk(vref, i) ==
    LET topbits == (vref.type.left + 1) - 32 * (proxyNumChunks(vref) - 1)
    IN  IF i < proxyNumChunks(vref) - 1 \/ topbits = 32 THEN -1
        ELSE IF topbits = 31 THEN MaxI32
        ELSE Pow2(topbits) - 1

\* set(value): [mem, err]; err is the HDLError "can't set property"
proxySet(mem, base, vref, value) ==
    IF vref.size = 1
    THEN [mem |-> StB(mem, base + vref.offset, I32And(Digit(value.d, 1), proxyMask(vref))),
          err |-> FALSE]
    ELSE IF vref.size = 2
    THEN [mem |-> StH(mem, ((base + vref.offset) \div 2) * 2,
                      I32And(Digit(value.d, 1), proxyMask(vref))),
          err |-> FALSE]
    ELSE IF vref.size = 4
    THEN [mem |-> StW(mem, ((base + vref.offset) \div 4) * 4,
                      I32And(Digit(value.d, 1), proxyMask(vref))),
          err |-> FALSE]
    ELSE IF proxyIsWide(vref)
    THEN [mem |-> WrChunks(mem, ((base + vref.offset) \div 4) * 4,
                           [i \in 1..proxyNumChunks(vref) |->
                               I32And(Digit(value.d, i), bigMaskChunk(vref, i - 1))]),
          err |-> FALSE]
    ELSE [mem |-> mem, err |-> TRUE]

\* new Uint16Array(databuf, byteOffset, length), new Uint32Array(...): the
\* view of the elements elems, or a RangeError when byteOffset is not a
\* multiple of the element size
typedView(t, elems, byteOffset, elsize) ==
    IF byteOffset % elsize # 0 THEN [t |-> "RangeError", d |-> << >>]
    ELSE [t |-> t, d |-> elems]

\* get()
proxyGet(mem, base, vref) ==
    IF hasType(vref) /\ vref.type.count > 0 /\ LogicSize(vref.type.left) = 1
    THEN [t |-> "Uint8Array",
          d |-> [i \in 1..vref.size |-> LdB(mem, base + vref.offset + i - 1)]]
    ELSE IF hasType(vref) /\ vref.type.count > 0 /\ LogicSize(vref.type.left) = 2
    THEN typedView("Uint16Array",
                   [i \in 1..(vref.size \div 2) |->
                       LdB(mem, (base \div 2) + vref.offset + 2 * (i - 1))
                       + 256 * LdB(mem, (base \div 2) + vref.offset + 2 * (i - 1) + 1)],
                   (base \div 2) + vref.offset, 2)
    ELSE IF hasType(vref) /\ vref.type.count > 0 /\ LogicSize(vref.type.left) = 4
    THEN typedView("Uint32Array",
                   RdChunks(mem, (base \div 4) + vref.offset, vref.size \div 4),
                   (base \div 4) + vref.offset, 4)
    ELSE IF ~(hasType(vref) /\ vref.type.count > 0) /\ vref.size = 1
    THEN HostInt(<< LdB(mem, base + vref.offset) >>)
    ELSE IF ~(hasType(vref) /\ vref.type.count > 0) /\ vref.size = 2
    THEN HostInt(<< LdB(mem, ((base + vref.offset) \div 2) * 2)
                    + 256 * LdB(mem, ((base + vref.offset) \div 2) * 2 + 1) >>)
    ELSE IF ~(hasType(vref) /\ vref.type.count > 0) /\ vref.size = 4
    THEN HostInt(<< LdW(mem, ((base + vref.offset) \div 4) * 4) >>)
    ELSE IF ~(hasType(vref) /\ vref.type.count > 0) /\ proxyIsWide(vref)
    THEN HostInt([i \in 1..proxyNumChunks(vref) |->
                    I32And(LdW(mem, ((base + vref.offset) \div 4) * 4 + 4 * (i - 1)),
                           bigMaskChunk(vref, i - 1))])
    ELSE typedView("Uint32Array",
                   RdChunks(mem, (base \div 4) + vref.offset, vref.size \div 4),
                   (base \div 4) + vref.offset, 4)


----------------------------------------------------------------------------
(* Construction of an instance: constructor (genMemory) and init()         *)
(* (genStateInterface, enableTracing).                                     *)

\* the repetitions of the tick2 loop the model follows within one call
MaxTick2Reps == 2

\* the explicit part of the memory kept for an instance: everything up to
\* and including the first records of the trace ring
ExplicitTraceBytes == 8 * MaxTick2Reps

\* fields of a constructed HDLModuleWASM
NewInstance(vardefs, hasPool, pool) ==
    With(genTypes(vardefs, hasPool, pool), LAMBDA g :
    [globals     |-> g.globals,
     outputbytes |-> g.outputbytes,
     statebytes  |-> g.statebytes,
     membytes    |-> genMemory(g.globals),
     traceStartOffset |-> lookup(g.globals, TRACEBUF).offset,
     traceReadOffset  |-> lookup(g.globals, TRACEBUF).offset,
     traceEndOffset   |-> lookup(g.globals, TRACEBUF).offset
                            + TraceBufferSize - g.outputbytes])

ZeroMemory(inst) == [x \in 0..(inst.traceStartOffset + ExplicitTraceBytes - 1) |-> 0]

\* a JavaScript number below 2^31 as a host value
HostNum(n) == HostInt(<< n >>)

\* state[name] = value
StateSet(inst, mem, name, value) == proxySet(mem, 0, lookup(inst.globals, name), value)

\* state[name]
StateGet(inst, mem, name) == proxyGet(mem, 0, lookup(inst.globals, name))

\* enableTracing followed by resetTrace: the memory after init()
enableTracing(inst, mem) ==
    StateSet(inst,
             StateSet(inst,
                      StateSet(inst, mem, TRACEEND, HostNum(inst.traceEndOffset)).mem,
                      TRACERECLEN, HostNum(inst.outputbytes)).mem,
             TRACEOFS, HostNum(inst.traceStartOffset)).mem

Ofs(inst, name) == lookup(inst.globals, name).offset


----------------------------------------------------------------------------
(* Scalar code (expression translator, 32-bit path).  An HDL expression    *)
(* is a record with an op field: "const" (cvalue), "varref" (refname),     *)
(* a binary operator (left, right), "extends" (left, width, widthminv),    *)
(* "cond"/"if" (cond, left, right), "assign"/"changedet" (left = source,   *)
(* right = destination), each with its dtype.  e2w gives the value the     *)
(* emitted expression leaves on the stack, stmt2wasm the effect of an      *)
(* emitted statement on [mem, req] (req is the local $$CHANGE).            *)

I32Ne(a, b) == IF a # b THEN 1 ELSE 0

I32GeU(a, b) == IF I32LtU(a, b) = 1 THEN 0 ELSE 1

I32LeU(a, b) == IF I32GtU(a, b) = 1 THEN 0 ELSE 1

\* i32.extend8_s
I32Extend8S(a) ==
    LET b == Lo16(a) % 256 IN IF b >= 128 THEN b - 256 ELSE b

\* i32.extend16_s
I32Extend16S(a) ==
    LET h == Lo16(a) IN IF h >= 32768 THEN h - 65536 ELSE h

\* i32.load16_u
LdH(mem, addr) == ByteAt(mem, addr + 1) * 256 + ByteAt(mem, addr)

loadmem(mem, addr, size) ==
    IF size = 1 THEN LdB(mem, addr)
    ELSE IF size = 2 THEN LdH(mem, addr)
    ELSE LdW(mem, addr)

storemem(mem, addr, size, value) ==
    IF size = 1 THEN StB(mem, addr, value)
    ELSE IF size = 2 THEN StH(mem, addr, value)
    ELSE StW(mem, addr, value)

\* the instruction a binary operator is translated to
i32op(op, a, b) ==
    CASE op = "add"   -> I32Add(a, b)
      [] op = "sub"   -> I32Sub(a, b)
      [] op = "and"   -> I32And(a, b)
      [] op = "or"    -> I32Or(a, b)
      [] op = "xor"   -> I32Xor(a, b)
      [] op = "shiftl" -> I32Shl(a, b)
      [] op = "eq"    -> I32Eq(a, b)
      [] op = "neq"   -> I32Ne(a, b)
      [] op = "lt"    -> I32LtU(a, b)
      [] op = "gt"    -> I32GtU(a, b)
      [] op = "lte"   -> I32LeU(a, b)
      [] op = "gte"   -> I32GeU(a, b)
      [] op = "lts"   -> I32LtS(a, b)
      [] op = "gts"   -> I32GtS(a, b)
      [] op = "ltes"  -> I32LeS(a, b)
      [] op = "gtes"  -> I32GeS(a, b)

\* _extends2wasm with the SignExt feature set (genMemory sets it)
extends2wasm(value, width, widthminv) ==
    IF widthminv = 8 THEN I32Extend8S(value)
    ELSE IF widthminv = 16 THEN I32Extend16S(value)
    ELSE I32ShrS(I32Shl(value, width - widthminv), width - widthminv)

RECURSIVE e2w(_, _, _)
e2w(mem, globals, e) ==
    CASE e.op = "const"   -> e.cvalue
      [] e.op = "varref"  -> loadmem(mem, lookup(globals, e.refname).offset,
                                     lookup(globals, e.refname).size)
      [] e.op = "extends" -> extends2wasm(e2w(mem, globals, e.left), e.width, e.widthminv)
      [] e.op = "not"     -> I32Xor(-1, e2w(mem, globals, e.left))
      [] e.op = "negate"  -> I32Sub(0, e2w(mem, globals, e.left))
      [] e.op = "cond"    -> Select(e2w(mem, globals, e.cond), e2w(mem, globals, e.left),
                                    e2w(mem, globals, e.right))
      [] OTHER            -> i32op(e.op, e2w(mem, globals, e.left), e2w(mem, globals, e.right))

\* assign2wasm to a global variable
assign2wasm(mem, globals, dest, src) ==
    storemem(mem, lookup(globals, dest.refname).offset, lookup(globals, dest.refname).size,
             e2w(mem, globals, src))

\* The fields finished and stopped of the instance are set by imports the
\* generated code calls, so they travel with the memory the code runs on:
\* they are the entries FinishedFlag and StoppedFlag of the function, below
\* the addresses of the linear memory.  A memory without these entries
\* belongs to an instance whose module calls neither import.
FinishedFlag == -1

StoppedFlag == -2

\* isFinished(), isStopped()
isFinished(mem) == FinishedFlag \in DOMAIN mem /\ mem[FinishedFlag] = 1

isStopped(mem) == StoppedFlag \in DOMAIN mem /\ mem[StoppedFlag] = 1

\* a $finish that inverts the flag
finishImport_toggle(mem) ==
    IF FinishedFlag \in DOMAIN mem
    THEN [mem EXCEPT ![FinishedFlag] = 1 - mem[FinishedFlag]] ELSE mem

\* the imports $finish and $stop of getImportObject
finishImport(mem) ==
    IF FinishedFlag \in DOMAIN mem THEN [mem EXCEPT ![FinishedFlag] = 1] ELSE mem

stopImport(mem) ==
    IF StoppedFlag \in DOMAIN mem THEN [mem EXCEPT ![StoppedFlag] = 1] ELSE mem

\* this.finished = false; this.stopped = false
clearFlags(mem) ==
    [x \in DOMAIN mem |-> IF x \in {FinishedFlag, StoppedFlag} THEN 0 ELSE mem[x]]

\* funccall2wasm as a statement: the call of the import
funccall2wasm(mem, e) ==
    CASE e.funcname = "$finish" -> finishImport(mem)
      [] e.funcname = "$stop"   -> stopImport(mem)

RECURSIVE stmt2wasm(_, _, _)
stmt2wasm(st, globals, e) ==
    CASE e.op = "funccall" ->
           [st EXCEPT !.mem = funccall2wasm(st.mem, e)]
      [] e.op = "assign" ->
           [st EXCEPT !.mem = assign2wasm(st.mem, globals, e.right, e.left)]
      [] e.op = "changedet" ->
           [mem |-> assign2wasm(st.mem, globals, e.right, e.left),
            req |-> IF I32Ne(e2w(st.mem, globals, e.left), e2w(st.mem, globals, e.right)) # 0
                    THEN 1 ELSE st.req]
      [] e.op = "if" ->
           IF e2w(st.mem, globals, e.cond) # 0
           THEN stmt2wasm(st, globals, e.left)
           ELSE stmt2wasm(st, globals, e.right)
      [] e.op = "nop" -> st

\* block2wasm of a function block: the statements in order
RECURSIVE block2wasm(_, _, _)
block2wasm(st, globals, exprs) ==
    IF exprs = << >> THEN st
    ELSE block2wasm(stmt2wasm(st, globals, Head(exprs)), globals, Tail(exprs))

\* a call of the function generated for a block: [mem, req]; a
\* _change_request function returns req, every other function nothing
callBlock(mem, inst, hmod, fnname) ==
    block2wasm([mem |-> mem, req |-> 0], inst.globals, hmod.blocks[fnname])

\* expression constructors (as the tests build them)
makeConst(value, bits) == [op |-> "const", cvalue |-> value, dtype |-> [left |-> bits - 1, count |-> 0]]

makeVarRef(name, bits) == [op |-> "varref", refname |-> name, dtype |-> [left |-> bits - 1, count |-> 0]]

makeBinop(op, l, r, bits) == [op |-> op, left |-> l, right |-> r, dtype |-> [left |-> bits - 1, count |-> 0]]

makeAssign(destName, destBits, src) ==
    [op |-> "assign", left |-> src, right |-> makeVarRef(destName, destBits),
     dtype |-> [left |-> destBits - 1, count |-> 0]]

makeChangeDet(name, lastName, bits) ==
    [op |-> "changedet", left |-> makeVarRef(name, bits), right |-> makeVarRef(lastName, bits),
     dtype |-> [left |-> bits - 1, count |-> 0]]

makeCond(c, l, r, bits) ==
    [op |-> "cond", cond |-> c, left |-> l, right |-> r, dtype |-> [left |-> bits - 1, count |-> 0]]

makeExtends(e, width, widthminv) ==
    [op |-> "extends", left |-> e, width |-> width, widthminv |-> widthminv,
     dtype |-> [left |-> width - 1, count |-> 0]]

\* makeModule: the five blocks every module has
makeModule(vardefs, evalExprs, changeExprs, hasPool, pool) ==
    [vardefs |-> vardefs, hasPool |-> hasPool, pool |-> pool,
     blocks |-> ("_ctor_var_reset" :> << >>) @@ ("_eval_initial" :> << >>)
                 @@ ("_eval_settle" :> << >>) @@ ("_eval" :> evalExprs)
                 @@ ("_change_request" :> changeExprs)]


----------------------------------------------------------------------------
(* Runtime methods of HDLModuleWASM and the helper functions it adds to    *)
(* the module (copyTraceRec, eval, tick2), executed on a memory.           *)

maxEvalIterations == 8

PowercycleReps == 100

\* clearMutableState: data32.fill(0, 0, statebytes >> 2)
clearMutableState(inst, mem) ==
    [x \in DOMAIN mem |-> IF 0 <= x /\ x < (inst.statebytes \div 4) * 4 THEN 0 ELSE mem[x]]

\* setInitialValue: a record with a constval is written through the proxy,
\* cvalue when it is a number and bigvalue otherwise: [mem, err]; err is
\* the HDLError of the setter
setInitialValue(inst, mem, rec) ==
    IF rec.isConst
    THEN proxySet(mem, 0, rec,
                  IF rec.constval.isNumber THEN HostInt(<< rec.constval.cvalue >>)
                  ELSE HostInt(rec.constval.bigvalue))
    ELSE [mem |-> mem, err |-> FALSE]

\* setInitialValues: the records in layout order, up to the first error
RECURSIVE setInitialValuesFrom(_, _, _)
setInitialValuesFrom(inst, mem, recs) ==
    IF recs = << >> THEN [mem |-> mem, err |-> FALSE]
    ELSE With(setInitialValue(inst, mem, Head(recs)), LAMBDA r :
              IF r.err THEN r ELSE setInitialValuesFrom(inst, r.mem, Tail(recs)))

setInitialValues(inst, mem) == setInitialValuesFrom(inst, mem, inst.globals.locals)

\* the blocks called one after the other on a memory: the memory they leave
RECURSIVE callBlocks(_, _, _, _)
callBlocks(mem, inst, hmod, fnnames) ==
    IF fnnames = << >> THEN mem
    ELSE callBlocks(callBlock(mem, inst, hmod, Head(fnnames)).mem, inst, hmod, Tail(fnnames))

\* one repetition of the loop of powercycle on st = [mem, log, chg, done]:
\* nothing once the method has returned (done); log lists the steps in the
\* order they ran, chg what each _change_request call returned
powercycleStep(inst, hmod, st) ==
    IF st.done THEN st
    ELSE With(callBlock(callBlocks(st.mem, inst, hmod, << "_eval_settle", "_eval" >>),
                        inst, hmod, "_change_request"), LAMBDA c :
         [mem  |-> c.mem,
          log  |-> st.log \o << "_eval_settle", "_eval", "_change_request" >>,
          chg  |-> Append(st.chg, c.req),
          done |-> c.req = 0])

\* n repetitions of the loop, one after the other (none after a return)
RECURSIVE powercycleLoop(_, _, _, _)
powercycleLoop(inst, hmod, st, n) ==
    IF st.done \/ n = 0 THEN st
    ELSE IF n = 1 THEN powercycleStep(inst, hmod, st)
    ELSE With(powercycleLoop(inst, hmod, st, n \div 2), LAMBDA s :
              powercycleLoop(inst, hmod, s, n - n \div 2))

\* powercycle with a loop of reps repetitions
powercycleWith(inst, hmod, mem, reps) ==
    With(setInitialValues(inst, clearMutableState(inst, clearFlags(mem))), LAMBDA s0 :
    IF s0.err
    THEN [mem |-> s0.mem, log |-> << "clearMutableState", "setInitialValues" >>,
          chg |-> << >>, err |-> TRUE]
    ELSE With(powercycleLoop(inst, hmod,
             [mem |-> callBlocks(s0.mem, inst, hmod, << "_ctor_var_reset", "_eval_initial" >>),
              log |-> << "clearMutableState", "setInitialValues",
                         "_ctor_var_reset", "_eval_initial" >>,
              chg |-> << >>, done |-> FALSE],
             reps), LAMBDA r :
    [mem |-> r.mem, log |-> r.log, chg |-> r.chg, err |-> ~r.done]))

\* powercycle with a loop of one repetition less
powercycle_short(inst, hmod, mem) == powercycleWith(inst, hmod, mem, PowercycleReps - 1)

\* powercycle(): [mem, log, chg, err]; err is the HDLError "model did not
\* converge on reset()", thrown when the loop ends without a return
powercycle(inst, hmod, mem) == powercycleWith(inst, hmod, mem, PowercycleReps)

\* the body addEvalFunction gives the exported eval (makeTickFuncBody):
\* [mem, log, chg, ret]; log lists the calls made, chg what each
\* _change_request call returned, ret the value the function returns
RECURSIVE makeTickFuncBody(_, _, _, _, _, _)
makeTickFuncBody(inst, hmod, mem, log, chg, count) ==
    IF count > maxEvalIterations
    THEN [mem |-> mem, log |-> log, chg |-> chg, ret |-> count]
    ELSE With(callBlock(callBlocks(mem, inst, hmod, << "_eval" >>),
                        inst, hmod, "_change_request"), LAMBDA c :
         IF c.req # 0
         THEN makeTickFuncBody(inst, hmod, c.mem, log \o << "_eval", "_change_request" >>,
                               Append(chg, c.req), count + 1)
         ELSE [mem |-> c.mem, log |-> log \o << "_eval", "_change_request" >>,
               chg |-> Append(chg, c.req), ret |-> 0])

\* an eval that inverts the clock before it settles, as tick() does
eval_clocked(inst, hmod, mem) ==
    makeTickFuncBody(inst, hmod,
                     StateSet(inst, mem, "clk", HostNum(1 - LdB(mem, Ofs(inst, "clk")))).mem,
                     << >>, << >>, 0)

\* eval(): the exported eval
eval(inst, hmod, mem) == makeTickFuncBody(inst, hmod, mem, << >>, << >>, 0)

\* tick(): state.clk ^= 1; eval()
tick(inst, hmod, mem) ==
    eval(inst, hmod,
         StateSet(inst, mem, "clk",
                  HostNum(I32Xor(StateGet(inst, mem, "clk").d[1], 1))).mem)

\* the copy loop of copyTraceRec: i64 words from src to dest while len # 0
RECURSIVE copyTraceLoop(_, _, _, _, _)
copyTraceLoop(mem, membytes, src, dest, len) ==
    IF ~InBounds(src, membytes - 4) \/ ~InBounds(dest, membytes - 4)
    THEN [mem |-> mem, fault |-> TRUE]
    ELSE With(StW(StW(mem, dest, LdW(mem, src)), dest + 4, LdW(mem, src + 4)), LAMBDA m1 :
         IF I32Sub(len, 8) # 0
         THEN copyTraceLoop(m1, membytes, I32Add(src, 8), I32Add(dest, 8), I32Sub(len, 8))
         ELSE [mem |-> m1, fault |-> FALSE])

\* an advance of $$tofs that never goes back to the start of the ring
advanceTrace_nowrap(inst, mem) ==
    StW(mem, Ofs(inst, TRACEOFS),
        I32Add(LdW(mem, Ofs(inst, TRACEOFS)), LdW(mem, Ofs(inst, TRACERECLEN))))

\* the end of copyTraceRec: $$tofs advances by $$treclen and goes back to
\* the start of the ring when it is not below $$tend
advanceTrace(inst, mem) ==
    With(I32Add(LdW(mem, Ofs(inst, TRACEOFS)), LdW(mem, Ofs(inst, TRACERECLEN))), LAMBDA next :
    StW(mem, Ofs(inst, TRACEOFS),
        IF I32LtU(next, LdW(mem, Ofs(inst, TRACEEND))) # 0 THEN next
        ELSE Ofs(inst, TRACEBUF)))

\* copyTraceRec: [mem, fault]
copyTraceRec(inst, mem) ==
    With(copyTraceLoop(mem, inst.membytes, 0, LdW(mem, Ofs(inst, TRACEOFS)),
                       LdW(mem, Ofs(inst, TRACERECLEN))), LAMBDA c :
    IF c.fault THEN c ELSE [mem |-> advanceTrace(inst, c.mem), fault |-> FALSE])

\* makeSetVariableFunction('clk', value)
makeSetVariableFunction(inst, mem, name, value) ==
    storemem(mem, Ofs(inst, name), lookup(inst.globals, name).size, value)

\* clock phases in the order clk:=1, eval, clk:=0, eval
clockPhases_falling(inst, hmod, mem, v) ==
    eval(inst, hmod,
         makeSetVariableFunction(inst,
             eval(inst, hmod, makeSetVariableFunction(inst, mem, "clk", 1)).mem,
             "clk", 0)).mem

\* both clock phases of one repetition of tick2: clk:=v, eval for v = 0, 1
RECURSIVE clockPhases(_, _, _, _)
clockPhases(inst, hmod, mem, v) ==
    IF v > 1 THEN mem
    ELSE clockPhases(inst, hmod,
                     eval(inst, hmod, makeSetVariableFunction(inst, mem, "clk", v)).mem,
                     v + 1)

\* the loop addTick2Function emits, local $1 = counter: the body runs, then
\* the loop repeats while ($1 = $1 - 1) is not zero.  [mem, reps, done, fault];
\* done is FALSE when the loop is still running after limit repetitions
RECURSIVE tick2LoopWith(_, _, _, _, _, _)
tick2LoopWith(inst, hmod, mem, counter, reps, limit) ==
    With(copyTraceRec(inst, clockPhases(inst, hmod, mem, 0)), LAMBDA c :
    IF c.fault THEN [mem |-> c.mem, reps |-> reps, done |-> FALSE, fault |-> TRUE]
    ELSE IF I32Sub(counter, 1) = 0
         THEN [mem |-> c.mem, reps |-> reps + 1, done |-> TRUE, fault |-> FALSE]
    ELSE IF reps + 1 >= limit
         THEN [mem |-> c.mem, reps |-> reps + 1, done |-> FALSE, fault |-> FALSE]
         ELSE tick2LoopWith(inst, hmod, c.mem, I32Sub(counter, 1), reps + 1, limit))

\* the loop followed for MaxTick2Reps repetitions
tick2Loop(inst, hmod, mem, counter, reps) ==
    tick2LoopWith(inst, hmod, mem, counter, reps, MaxTick2Reps)

\* tick2(iters): the exported tick2, an alias of eval without a clk variable
tick2(inst, hmod, mem, iters) ==
    IF HasVar(inst.globals, "clk")
    THEN tick2Loop(inst, hmod, mem, iters, 0)
    ELSE [mem |-> eval(inst, hmod, mem).mem, reps |-> 0, done |-> TRUE, fault |-> FALSE]

\* saveState keeping the output bytes only
saveState_outputs(inst, mem) == [i \in 1..inst.outputbytes |-> mem[i - 1]]

\* saveState(): data8.slice(0, statebytes)
saveState(inst, mem) == [i \in 1..inst.statebytes |-> mem[i - 1]]

\* loadState(state): data8.set(state.o); a RangeError only when the blob
\* is longer than the whole memory
loadState(inst, mem, blob) ==
    IF Len(blob) > inst.membytes
    THEN [mem |-> mem, err |-> TRUE]
    ELSE [mem |-> [x \in DOMAIN mem |-> IF x < Len(blob) THEN blob[x + 1] ELSE mem[x]],
          err |-> FALSE]

\* a read offset that goes back to the start only once it is past the end
nextTrace_past(inst) ==
    IF inst.traceReadOffset + inst.outputbytes > inst.traceEndOffset
    THEN inst.traceStartOffset
    ELSE inst.traceReadOffset + inst.outputbytes

\* nextTrace(): the read offset after the call
nextTrace(inst) ==
    IF inst.traceReadOffset + inst.outputbytes >= inst.traceEndOffset
    THEN inst.traceStartOffset
    ELSE inst.traceReadOffset + inst.outputbytes

\* resetTrace(): state[TRACEOFS] = traceStartOffset
resetTrace(inst, mem) == StateSet(inst, mem, TRACEOFS, HostNum(inst.traceStartOffset)).mem


----------------------------------------------------------------------------
(* State of one simulation: the module definition, the fields of the      *)
(* instance built from it, its linear memory, the last host call with its  *)
(* outcome, and the blob a saveState returned (<< >> before any).          *)

VARIABLES hdlmod, instance, data8, call, saved

vars == << hdlmod, instance, data8, call, saved >>

----------------------------------------------------------------------------
(* Specification SpecWide: modules whose _eval is a wide operation.        *)
(* The modules are those of the unit tests: inputs a, b (or a, shift),     *)
(* one assignment per output.  _change_request is empty, so the exported   *)
(* eval runs _eval exactly once.                                           *)

AddChunks == {0, 1, MaxI32, -1}

CmpChunks == {0, 1, MinI32, -1}

ShiftChunks == {1, MinI32, -1, 305419896}

ShiftAmounts == {0, 1, 31, 32, 33, 64, 95, 96, 128, 191, 192, 255}

CmpNames == << "r_lt", "r_gt", "r_lte", "r_gte", "r_lts", "r_gts", "r_ltes", "r_gtes" >>

WideModules ==
    {[kind |-> "add", W |-> 96, op |-> "add", s |-> 0]}
    \cup {[kind |-> "cmp", W |-> w, op |-> "cmp", s |-> 0] : w \in {65, 96}}
    \cup {[kind |-> "shiftvar", W |-> 96, op |-> o, s |-> 0] :
             o \in {"shiftl", "shiftr", "shiftrs"}}
    \cup {[kind |-> "shiftconst", W |-> 96, op |-> o, s |-> sh] :
             o \in {"shiftl", "shiftr", "shiftrs"}, sh \in ShiftAmounts}

WideVarDefs(m) ==
    IF m.kind = "add"
    THEN << VarDef("clk", 1, FALSE), VarDef("a", m.W, FALSE), VarDef("b", m.W, FALSE),
            VarDef("result", m.W, TRUE) >>
    ELSE IF m.kind = "cmp"
    THEN << VarDef("clk", 1, FALSE), VarDef("a", m.W, FALSE), VarDef("b", m.W, FALSE) >>
         \o [i \in 1..8 |-> VarDef(CmpNames[i], 1, TRUE)]
    ELSE IF m.kind = "shiftvar"
    THEN << VarDef("clk", 1, FALSE), VarDef("a", m.W, FALSE), VarDef("shift", 8, FALSE),
            VarDef("result", m.W, TRUE) >>
    ELSE << VarDef("clk", 1, FALSE), VarDef("a", m.W, FALSE), VarDef("result", m.W, TRUE) >>

NumChunksOf(W) == getNumChunks([left |-> W - 1, count |-> 0])

\* the W-bit values whose chunks are drawn from chunks: the top chunk is
\* cut to the bits the width leaves it
WideValues(W, chunks) ==
    LET n   == NumChunksOf(W)
        top == W - 32 * (n - 1)
    IN  {v \in [1..n -> chunks] : top = 32 \/ (v[n] >= 0 /\ v[n] < Pow2(top))}

WideChunksFor(m) ==
    IF m.kind = "add" THEN AddChunks ELSE IF m.kind = "cmp" THEN CmpChunks ELSE ShiftChunks

WideInit ==
    /\ hdlmod \in WideModules
    /\ instance = NewInstance(WideVarDefs(hdlmod), FALSE, << >>)
    /\ \E a \in WideValues(hdlmod.W, WideChunksFor(hdlmod)) :
       \E b \in (IF hdlmod.kind \in {"add", "cmp"}
                 THEN WideValues(hdlmod.W, WideChunksFor(hdlmod)) ELSE {<< >>}) :
       \E sh \in (IF hdlmod.kind = "shiftvar" THEN ShiftAmounts ELSE {0}) :
          \E m1 \in {StateSet(instance, enableTracing(instance, ZeroMemory(instance)),
                               "a", HostInt(a)).mem} :
          \E m2 \in {IF hdlmod.kind \in {"add", "cmp"}
                     THEN StateSet(instance, m1, "b", HostInt(b)).mem ELSE m1} :
             data8 = IF hdlmod.kind = "shiftvar"
                     THEN StateSet(instance, m2, "shift", HostNum(sh)).mem ELSE m2
    /\ call = [op |-> "none", pre |-> data8, fault |-> FALSE]
    /\ saved = << >>

\* _eval of the add module: result = a + b
EvalWideAdd ==
    /\ hdlmod.kind = "add"
    /\ data8' = wideAdd(data8, Ofs(instance, "a"), Ofs(instance, "b"), Ofs(instance, "result"),
                       NumChunksOf(hdlmod.W))
    /\ call' = [op |-> "add", pre |-> data8, fault |-> FALSE]
    /\ UNCHANGED << hdlmod, instance, saved >>

\* value of the i-th comparison of the cmp module
CmpValue(mem, inst, W, i) ==
    LET la == Ofs(inst, "a")
        ra == Ofs(inst, "b")
        n  == NumChunksOf(W)
    IN  CASE i = 1 -> wideLt(mem, la, ra, n, FALSE)
          [] i = 2 -> wideGt(mem, la, ra, n, FALSE)
          [] i = 3 -> wideLte(mem, la, ra, n, FALSE)
          [] i = 4 -> wideGte(mem, la, ra, n, FALSE)
          [] i = 5 -> wideLt(mem, la, ra, n, TRUE)
          [] i = 6 -> wideGt(mem, la, ra, n, TRUE)
          [] i = 7 -> wideLte(mem, la, ra, n, TRUE)
          [] i = 8 -> wideGte(mem, la, ra, n, TRUE)

RECURSIVE CmpStores(_, _, _, _)
CmpStores(mem, inst, W, i) ==
    IF i > 8 THEN mem
    ELSE CmpStores(StB(mem, Ofs(inst, CmpNames[i]), CmpValue(mem, inst, W, i)), inst, W, i + 1)

\* _eval of the cmp module: r_lt = a < b; ... ; r_gtes = a >=s b
EvalWideCmp ==
    /\ hdlmod.kind = "cmp"
    /\ data8' = CmpStores(data8, instance, hdlmod.W, 1)
    /\ call' = [op |-> "cmp", pre |-> data8, fault |-> FALSE]
    /\ UNCHANGED << hdlmod, instance, saved >>

\* _eval of the shiftvar module: result = a << shift, a >> shift or a >>> shift
EvalWideShiftVar ==
    /\ hdlmod.kind = "shiftvar"
    /\ \E r \in {IF hdlmod.op = "shiftl"
                  THEN wideShiftLeftVar(data8, instance.membytes, Ofs(instance, "result"),
                                        Ofs(instance, "a"), NumChunksOf(hdlmod.W),
                                        LdB(data8, Ofs(instance, "shift")))
                  ELSE wideShiftRightVar(data8, instance.membytes, Ofs(instance, "result"),
                                         Ofs(instance, "a"), NumChunksOf(hdlmod.W),
                                         LdB(data8, Ofs(instance, "shift")),
                                         hdlmod.op = "shiftrs")} :
          /\ data8' = r.mem
          /\ call' = [op |-> hdlmod.op, pre |-> data8, fault |-> r.fault]
    /\ UNCHANGED << hdlmod, instance, saved >>

\* _eval of the shiftconst module: the shift amount is the constant hdlmod.s
EvalWideShiftConst ==
    /\ hdlmod.kind = "shiftconst"
    /\ LET n == NumChunksOf(hdlmod.W)
       IN  data8' = IF hdlmod.op = "shiftl"
                   THEN wideShiftLeftConst(data8, Ofs(instance, "result"), Ofs(instance, "a"),
                                           n, hdlmod.s)
                   ELSE wideShiftRightConst(data8, Ofs(instance, "result"), Ofs(instance, "a"),
                                            n, hdlmod.s, hdlmod.op = "shiftrs")
    /\ call' = [op |-> "const", pre |-> data8, fault |-> FALSE]
    /\ UNCHANGED << hdlmod, instance, saved >>

WideNext == EvalWideAdd \/ EvalWideCmp \/ EvalWideShiftVar \/ EvalWideShiftConst

SpecWide == WideInit /\ [][WideNext]_vars


----------------------------------------------------------------------------
(* Properties of the wide operations *)

\* carry out of left + right + carry, the three taken as unsigned numbers
RefCarry(left, right, carry) ==
    (Hi16(left) + Hi16(right) + ((Lo16(left) + Lo16(right) + carry) \div Half)) \div Half

\* (a + b) mod 2^(32 n) on chunk sequences, chunk by chunk with RefCarry
RECURSIVE RefAddFrom(_, _, _, _)
RefAddFrom(a, b, i, carry) ==
    IF i > Len(a) THEN << >>
    ELSE << I32Add(I32Add(a[i], b[i]), carry) >>
         \o RefAddFrom(a, b, i + 1, RefCarry(a[i], b[i], carry))

RefAdd(a, b) == RefAddFrom(a, b, 1, 0)

WideOperand(name) == RdChunks(call.pre, Ofs(instance, name), NumChunksOf(hdlmod.W))

WideResult == RdChunks(data8, Ofs(instance, "result"), NumChunksOf(hdlmod.W))

\* C1: after result = a + b on N-chunk operands the destination holds
\* (a + b) mod 2^(32 N), the carry into chunk i+1 being 1 exactly when
\* left_i + right_i + carry_i >= 2^32
C1_WideAddExact ==
    call.op = "add" => WideResult = RefAdd(WideOperand("a"), WideOperand("b"))

\* a < b for chunk sequences read as unsigned integers
RECURSIVE RefLtU(_, _, _)
RefLtU(a, b, i) ==
    IF i = 0 THEN FALSE
    ELSE IF a[i] # b[i] THEN I32LtU(a[i], b[i]) = 1
    ELSE RefLtU(a, b, i - 1)

\* bit W-1 of a W-bit value
SignBit(a, W) ==
    LET n == NumChunksOf(W)
    IN  I32And(I32ShrU(a[n], (W - 1) % 32), 1) = 1

\* a < b for chunk sequences read as W-bit two's-complement integers
RefLtS(a, b, W) ==
    IF SignBit(a, W) # SignBit(b, W) THEN SignBit(a, W) ELSE RefLtU(a, b, Len(a))

Bool01(x) == IF x THEN 1 ELSE 0

RefCmp(a, b, W) ==
    << Bool01(RefLtU(a, b, Len(a))), Bool01(RefLtU(b, a, Len(a))),
       Bool01(~RefLtU(b, a, Len(a))), Bool01(~RefLtU(a, b, Len(a))),
       Bool01(RefLtS(a, b, W)), Bool01(RefLtS(b, a, W)),
       Bool01(~RefLtS(b, a, W)), Bool01(~RefLtS(a, b, W)) >>

CmpResults == [i \in 1..8 |-> LdB(data8, Ofs(instance, CmpNames[i]))]

\* C9: for wide operands of every width W > 64 the unsigned comparisons
\* return the comparison of the operands as unsigned integers and the signed
\* ones order them by their W-bit two's-complement value
C9_WideCompareExact ==
    call.op = "cmp" => CmpResults = RefCmp(WideOperand("a"), WideOperand("b"), hdlmod.W)

\* what the constant-amount shift by s stores, from the same memory
ConstShiftResult(s) ==
    LET n == NumChunksOf(hdlmod.W)
        m == IF hdlmod.op = "shiftl"
             THEN wideShiftLeftConst(call.pre, Ofs(instance, "result"), Ofs(instance, "a"), n, s)
             ELSE wideShiftRightConst(call.pre, Ofs(instance, "result"), Ofs(instance, "a"), n, s,
                                      hdlmod.op = "shiftrs")
    IN  RdChunks(m, Ofs(instance, "result"), n)

\* C10: for every value and every shift amount the operand can hold, the
\* variable-amount wide shifts complete without a memory fault and store the
\* chunks the constant-amount shift by the same amount stores
C10_VarShiftAsConst ==
    (hdlmod.kind = "shiftvar" /\ call.op # "none") =>
        /\ ~call.fault
        /\ WideResult = ConstShiftResult(LdB(call.pre, Ofs(instance, "shift")))

----------------------------------------------------------------------------
(* Specification SpecRun: the host drives an instance through powercycle,  *)
(* eval, tick, tick2, resetTrace and proxy writes.  Every call runs to     *)
(* completion on the caller's thread, so each is one step.                 *)

\* out = out: a module whose only feedback is the assignment of out to
\* itself, with the empty _change_request the tests' makeModule gives
HoldModule ==
    makeModule(<< VarDef("clk", 1, FALSE), VarDef("out", 8, TRUE) >>,
               << makeAssign("out", 8, makeVarRef("out", 8)) >>,
               << >>, FALSE, << >>)

\* cnt = (cnt < lim) ? cnt + 1 : cnt, with the change detection the frontend
\* emits for cnt; lim is a constant of the constant pool
CountModule(K) ==
    makeModule(<< VarDef("clk", 1, FALSE), VarDef("cnt", 8, TRUE),
                  VarDef("__Vchglast__cnt", 8, FALSE) >>,
               << makeAssign("cnt", 8,
                     makeCond(makeBinop("lt", makeVarRef("cnt", 8), makeVarRef("lim", 8), 1),
                              makeBinop("add", makeVarRef("cnt", 8), makeConst(1, 8), 8),
                              makeVarRef("cnt", 8), 8)) >>,
               << makeChangeDet("cnt", "__Vchglast__cnt", 8) >>,
               TRUE, << ConstDef("lim", 8, K) >>)

RunLimits == {1, 7, 8, 9}

RunModules == {HoldModule} \cup {CountModule(K) : K \in RunLimits}

\* the instance after construction and init()
InitOf(modules) ==
    /\ hdlmod \in modules
    /\ instance = NewInstance(hdlmod.vardefs, hdlmod.hasPool, hdlmod.pool)
    /\ data8 = enableTracing(instance, ZeroMemory(instance))
    /\ call = [op |-> "init", err |-> FALSE]
    /\ saved = << >>

RunInit == InitOf(RunModules)

\* the host is not inside a call that has not returned
Returned == ~(call.op = "tick2" /\ ~call.done)

Powercycle ==
    /\ Returned
    /\ \E r \in {powercycle(instance, hdlmod, data8)} :
           /\ data8' = r.mem
           /\ call' = [op |-> "powercycle", log |-> r.log, chg |-> r.chg, err |-> r.err]
    /\ UNCHANGED << hdlmod, instance, saved >>

Eval ==
    /\ Returned
    /\ \E r \in {eval(instance, hdlmod, data8)} :
           /\ data8' = r.mem
           /\ call' = [op |-> "eval", log |-> r.log, chg |-> r.chg, ret |-> r.ret,
                       err |-> FALSE]
    /\ UNCHANGED << hdlmod, instance, saved >>

Tick ==
    /\ Returned
    /\ \E r \in {tick(instance, hdlmod, data8)} :
           /\ data8' = r.mem
           /\ call' = [op |-> "tick", log |-> r.log, chg |-> r.chg, ret |-> r.ret,
                       err |-> FALSE]
    /\ UNCHANGED << hdlmod, instance, saved >>

\* the iteration counts the host passes to tick2
TickIters == 0..MaxTick2Reps

\* the records the loop can write stay in the explicit part of the ring
TraceRoom ==
    LET tofs == LdW(data8, Ofs(instance, TRACEOFS))
        len  == LdW(data8, Ofs(instance, TRACERECLEN))
    IN  /\ len > 0 /\ len % 8 = 0
        /\ tofs >= instance.traceStartOffset
        /\ tofs + MaxTick2Reps * len <= instance.traceStartOffset + ExplicitTraceBytes

\* tick2(iters); recs is the number of trace records appended
Tick2 ==
    /\ Returned
    /\ TraceRoom
    /\ \E iters \in TickIters :
          \E r \in {tick2(instance, hdlmod, data8, iters)} :
              /\ data8' = r.mem
              /\ call' = [op |-> "tick2", iters |-> iters, reps |-> r.reps,
                          done |-> r.done, err |-> r.fault,
                          recs |-> (LdW(r.mem, Ofs(instance, TRACEOFS))
                                      - LdW(data8, Ofs(instance, TRACEOFS)))
                                   \div LdW(data8, Ofs(instance, TRACERECLEN))]
    /\ UNCHANGED << hdlmod, instance, saved >>

ResetTrace ==
    /\ Returned
    /\ data8' = resetTrace(instance, data8)
    /\ instance' = [instance EXCEPT !.traceReadOffset = instance.traceStartOffset]
    /\ call' = [op |-> "resetTrace", err |-> FALSE]
    /\ UNCHANGED << hdlmod, saved >>

\* the variables of the module (its vardefs without a constValue)
ModuleNames == {hdlmod.vardefs[i].name : i \in 1..Len(hdlmod.vardefs)}

\* the variables the host drives: the clock and the output
HostNames == {hdlmod.vardefs[i].name : i \in 1..2}

\* state[name] = value for a variable the host drives
ProxyWrite ==
    /\ Returned
    /\ \E name \in HostNames, value \in {0, 1} :
          \E r \in {StateSet(instance, data8, name, HostNum(value))} :
              /\ data8' = r.mem
              /\ call' = [op |-> "write", err |-> r.err]
    /\ UNCHANGED << hdlmod, instance, saved >>

RunNext == Powercycle \/ Eval \/ Tick \/ Tick2 \/ ResetTrace \/ ProxyWrite

SpecRun == RunInit /\ [][RunNext]_vars

----------------------------------------------------------------------------
(* Specification SpecPower: powercycle on modules that settle at once, at  *)
(* the last repetition the loop allows, or not at all.                     *)

PowerLimits == {1, 99, 100}

PowerModules == {HoldModule} \cup {CountModule(K) : K \in PowerLimits}

PowerInit == InitOf(PowerModules)

PowerNext == Powercycle \/ Eval \/ ProxyWrite

SpecPower == PowerInit /\ [][PowerNext]_vars

----------------------------------------------------------------------------
(* Specification SpecState: SpecRun's calls together with saveState,       *)
(* loadState and proxy writes to every name of the layout.                 *)

StateModules == {CountModule(1)}

\* the instance after construction, init() and powercycle()
StateInit ==
    /\ hdlmod \in StateModules
    /\ instance = NewInstance(hdlmod.vardefs, hdlmod.hasPool, hdlmod.pool)
    /\ data8 = powercycle(instance, hdlmod, enableTracing(instance, ZeroMemory(instance))).mem
    /\ call = [op |-> "init", err |-> FALSE]
    /\ saved = << >>

\* every name the state proxy defines
ProxyNames == DOMAIN instance.globals.vars

\* the names stored in the first statebytes bytes of the memory
StateNames ==
    {n \in ProxyNames :
        lookup(instance.globals, n).offset + lookup(instance.globals, n).size
            <= instance.statebytes}

\* state[name]; of the view over the trace ring, its explicit part
ReadName(mem, name) ==
    IF name = TRACEBUF
    THEN [t |-> "Uint32Array",
          d |-> RdChunks(mem, instance.traceStartOffset, ExplicitTraceBytes \div 4)]
    ELSE StateGet(instance, mem, name)

\* the value the host writes to a name it does not drive: the start of the
\* ring to the trace offset, zero to everything else
WriteValue(name) == IF name = TRACEOFS THEN instance.traceStartOffset ELSE 0

\* state[name] = value for the other names of the layout; the lengths the
\* trace copy works with ($$treclen, $$tend) are left as init() set them
ProxyWriteAny ==
    /\ Returned
    /\ \E name \in ProxyNames \ (HostNames \cup {TRACERECLEN, TRACEEND}) :
          \E r \in {StateSet(instance, data8, name, HostNum(WriteValue(name)))} :
              /\ data8' = r.mem
              /\ call' = [op |-> "write", err |-> r.err]
    /\ UNCHANGED << hdlmod, instance, saved >>

\* the ring holds no record yet
TraceEmpty ==
    /\ LdW(data8, Ofs(instance, TRACEOFS)) = instance.traceStartOffset
    /\ \A x \in DOMAIN data8 : x >= instance.traceStartOffset => data8[x] = 0

\* B = saveState(), with what every proxy read returns at that moment; the
\* host takes B once, before it starts tracing
SaveState ==
    /\ Returned
    /\ saved = << >>
    /\ TraceEmpty
    /\ saved' = [blob |-> saveState(instance, data8),
                 snap |-> [n \in ProxyNames |-> ReadName(data8, n)]]
    /\ call' = [op |-> "saveState", err |-> FALSE]
    /\ UNCHANGED << hdlmod, instance, data8 >>

\* the blobs the host passes to loadState: B, B cut short, B with more bytes
Blobs(B) ==
    {B, SubSeq(B, 1, Len(B) - 8), B \o [i \in 1..8 |-> 0]}

\* loadState(blob); same tells that the blob is B, changed that a name of
\* the state region read differently from B's moment when the call was made
LoadState ==
    /\ Returned
    /\ saved # << >>
    /\ \E blob \in Blobs(saved.blob) :
          \E r \in {loadState(instance, data8, blob)} :
              /\ data8' = r.mem
              /\ call' = [op |-> "loadState", len |-> Len(blob), same |-> blob = saved.blob,
                          changed |-> \E n \in StateNames :
                                         ReadName(data8, n) # saved.snap[n],
                          err |-> r.err]
    /\ UNCHANGED << hdlmod, instance, saved >>

StateNext ==
    Eval \/ Tick \/ Tick2 \/ ProxyWrite \/ ProxyWriteAny \/ SaveState \/ LoadState

SpecState == StateInit /\ [][StateNext]_vars

----------------------------------------------------------------------------
(* Properties of powercycle, eval, tick2, saveState and loadState *)

\* the j-th step of a powercycle: the four steps before the loop, then the
\* three calls of every repetition
PowercycleStepName(j) ==
    IF j <= 4
    THEN << "clearMutableState", "setInitialValues", "_ctor_var_reset", "_eval_initial" >>[j]
    ELSE << "_eval_settle", "_eval", "_change_request" >>[((j - 5) % 3) + 1]

\* the limit a count module counts to
LimitOf(hmod) == hmod.pool[1].constValue.cvalue

\* C2: powercycle runs the zeroing of the state, the initial values,
\* _ctor_var_reset and _eval_initial, in this order, then repeats
\* (_eval_settle, _eval, _change_request); it returns at the first repetition
\* whose _change_request reports no change and raises the convergence error
\* if and only if each of 100 repetitions reported a change; the module
\* out = out powercycles without raising.  The memory shows the same: the
\* constant has its value, and a module counting to K ran K + 1 repetitions
\* (100 when it raises)
C2_PowercycleSettles ==
    call.op = "powercycle" =>
        LET n == Len(call.chg)
        IN  /\ n \in 1..PowercycleReps
            /\ Len(call.log) = 4 + 3 * n
            /\ \A j \in 1..Len(call.log) : call.log[j] = PowercycleStepName(j)
            /\ \A i \in 1..(n - 1) : call.chg[i] # 0
            /\ call.err <=> (n = PowercycleReps /\ call.chg[n] # 0)
            /\ hdlmod = HoldModule => (~call.err /\ n = 1)
            /\ hdlmod.hasPool =>
                  LET K == LimitOf(hdlmod)
                  IN  /\ StateGet(instance, data8, "lim") = HostNum(K)
                      /\ call.err <=> K >= PowercycleReps
                      /\ n = IF K + 1 < PowercycleReps THEN K + 1 ELSE PowercycleReps
                      /\ StateGet(instance, data8, "cnt")
                           = HostNum(IF K < PowercycleReps THEN K ELSE PowercycleReps)

\* a powercycle that returned at the last repetition the loop allows
C2_Witness == call.op = "powercycle" /\ ~call.err /\ Len(call.chg) = PowercycleReps

\* C3: one call of the exported eval invokes _eval at least once and at
\* most maxEvalIterations times, calls _change_request after each _eval,
\* returns at the first call that reports no change, and returns silently
\* when the cap is reached
C3_EvalAtMostMax ==
    call.op = "eval" =>
        LET n == Len(call.chg)
        IN  /\ n >= 1 /\ n <= maxEvalIterations
            /\ Len(call.log) = 2 * n
            /\ \A j \in 1..Len(call.log) :
                  call.log[j] = IF j % 2 = 1 THEN "_eval" ELSE "_change_request"
            /\ \A i \in 1..(n - 1) : call.chg[i] # 0
            /\ call.chg[n] = 0 \/ n = maxEvalIterations
            /\ ~call.err

\* C4: on a module with a clk variable tick2(iters), iters >= 0, performs
\* exactly iters repetitions of clk:=0, eval, clk:=1, eval, copyTraceRec,
\* appending exactly iters trace records, and then returns
C4_Tick2Exact ==
    call.op = "tick2" =>
        /\ call.done
        /\ call.reps = call.iters
        /\ call.recs = call.iters

C6_LoadRejectsWrongLength ==
    (call.op = "loadState" /\ call.len # instance.statebytes) => call.err

----------------------------------------------------------------------------
(* Specification SpecProxy: the host writes a variable of a module         *)
(* through the state proxy and reads it back.                              *)

ProxyWidths == {1, 7, 8, 9, 16, 17, 31, 32, 33, 48, 64, 65, 96}

\* a module with one variable v of W bits
ProxyModule(W) ==
    makeModule(<< VarDef("clk", 1, FALSE), VarDef("v", W, FALSE) >>,
               << >>, << >>, FALSE, << >>)

ProxyModules == {ProxyModule(W) : W \in ProxyWidths}

\* the declared width of v
WidthOf(hmod) == hmod.vardefs[2].left + 1

\* the chunk with only bit k - 1 set and the chunk with the k low bits set
TopBit(k) == IF k = 32 THEN MinI32 ELSE Pow2(k - 1)

LowOnes(k) == IF k = 32 THEN -1 ELSE IF k = 31 THEN MaxI32 ELSE Pow2(k) - 1

\* values v with 0 <= v < 2^W, as base-2^32 digits: every digit is 0, 1,
\* all ones, or the top bit or the full range of the bits the width leaves
\* to the top digit
ProxyValues(W) ==
    LET n   == (W + 31) \div 32
        top == W - 32 * (n - 1)
        low == IF n > 1 THEN {0, 1, -1} ELSE {0, 1}
    IN  {v \in [1..n -> low \cup {TopBit(top), LowOnes(top)}] :
            v[n] \in {0, 1, TopBit(top), LowOnes(top)}}

ProxyInit == InitOf(ProxyModules)

\* state.v = value
ProxySet ==
    /\ \E value \in ProxyValues(WidthOf(hdlmod)) :
          \E r \in {StateSet(instance, data8, "v", HostInt(value))} :
              /\ data8' = r.mem
              /\ call' = [op |-> "set", value |-> HostInt(value), err |-> r.err]
    /\ UNCHANGED << hdlmod, instance, saved >>

\* state.v, read after a write
ProxyGet ==
    /\ call.op = "set"
    /\ call' = [op |-> "get", written |-> call.value, seterr |-> call.err,
                value |-> StateGet(instance, data8, "v"), err |-> FALSE]
    /\ UNCHANGED << hdlmod, instance, data8, saved >>

ProxyNext == ProxySet \/ ProxyGet

SpecProxy == ProxyInit /\ [][ProxyNext]_vars

----------------------------------------------------------------------------
(* Specification SpecCompare: signed comparisons of a 28-bit operand held  *)
(* in a 32-bit container with the constant 28'sh4000.                      *)

CompareWidth == 28

CompareConst == 16384

SignedOps == {"gts", "lts", "gtes", "ltes"}

CompareKinds == {"extends", "masked", "var"}

\* the operand of the comparison: the sign extension of the 16-bit val as
\* _extends2wasm leaves it, the same cut to its 28 bits, or a 28-bit variable
CompareOperand(kind) ==
    IF kind = "extends" THEN makeExtends(makeVarRef("val", 16), CompareWidth, 16)
    ELSE IF kind = "masked"
    THEN makeBinop("and", makeConst(Pow2(CompareWidth) - 1, CompareWidth),
                   makeExtends(makeVarRef("val", 16), CompareWidth, 16), CompareWidth)
    ELSE makeVarRef("val", CompareWidth)

\* result = operand <op> 28'sh4000
CompareModule(kind, op) ==
    [kind |-> kind, cmp |-> op] @@
    makeModule(<< VarDef("clk", 1, FALSE),
                  VarDef("val", IF kind = "var" THEN CompareWidth ELSE 16, FALSE),
                  VarDef("result", 1, TRUE) >>,
               << makeAssign("result", 1,
                     makeBinop(op, CompareOperand(kind),
                               makeConst(CompareConst, CompareWidth), 1)) >>,
               << >>, FALSE, << >>)

CompareModules == {CompareModule(kind, op) : kind \in CompareKinds, op \in SignedOps}

\* the values the host gives val
CompareInputs(hmod) ==
    IF hmod.kind = "var"
    THEN {0, 12288, 16384, 16385, 20480, 134217727, 134217728, 268431360, 268435455}
    ELSE {0, 12288, 16384, 16385, 20480, 32767, 32768, 61440, 65535}

CompareInit == InitOf(CompareModules)

\* state.val = value
WriteInput ==
    /\ \E value \in CompareInputs(hdlmod) :
          \E r \in {StateSet(instance, data8, "val", HostNum(value))} :
              /\ data8' = r.mem
              /\ call' = [op |-> "write", value |-> value, err |-> r.err]
    /\ UNCHANGED << hdlmod, instance, saved >>

CompareNext == WriteInput \/ Eval

SpecCompare == CompareInit /\ [][CompareNext]_vars

\* the integer a W-bit pattern x stands for when bit W - 1 is its sign
RefSigned(x, W) == IF x >= Pow2(W - 1) THEN x - Pow2(W) ELSE x

\* the integer the operand of the module stands for
RefOperand(hmod, mem) ==
    LET val == StateGet(instance, mem, "val").d[1]
    IN  IF hmod.kind = "var" THEN RefSigned(val, CompareWidth)
        ELSE RefSigned(val % Pow2(16), 16)

RefRel(op, a, b) ==
    CASE op = "gts"  -> a > b
      [] op = "lts"  -> a < b
      [] op = "gtes" -> a >= b
      [] op = "ltes" -> a <= b

\* C8: a signed comparison of operands whose width W is smaller than their
\* container takes bit W - 1 as the sign: after eval the result is the
\* comparison of the integer the 28-bit operand stands for with 0x4000, so
\* that -4096 > 0x4000 is false
C8_SignedCompareNarrow ==
    call.op = "eval" =>
        StateGet(instance, data8, "result")
          = HostNum(Bool01(RefRel(hdlmod.cmp, RefOperand(hdlmod, data8), CompareConst)))

----------------------------------------------------------------------------
(* Specification SpecLaws: modules whose _eval is a chain of wide          *)
(* assignments with both operands in variables.  The round-trip module is  *)
(*     tmp = a << s;  result = tmp >> s                                     *)
(* with a, tmp and result of the same width W and s a constant.            *)

LawWidths == {65, 96}

SubChunks == {0, 1, MinI32, -1}

SubChunksLong == {0, -1}

LawModules ==
    {[kind |-> "roundtrip", W |-> w, op |-> "shiftl", s |-> sh] : w \in LawWidths, sh \in 0..96}
    \cup {[kind |-> "sub", W |-> w, op |-> "sub", s |-> 0] : w \in {65, 96, 128}}

LawVarDefs(m) ==
    IF m.kind = "roundtrip"
    THEN << VarDef("clk", 1, FALSE), VarDef("a", m.W, FALSE), VarDef("tmp", m.W, FALSE),
            VarDef("result", m.W, TRUE) >>
    ELSE << VarDef("clk", 1, FALSE), VarDef("a", m.W, FALSE), VarDef("b", m.W, FALSE),
            VarDef("result", m.W, TRUE) >>

LawChunksFor(m) ==
    IF m.kind = "roundtrip" THEN ShiftChunks
    ELSE IF m.W > 96 THEN SubChunksLong ELSE SubChunks

LawInit ==
    /\ hdlmod \in {m \in LawModules : m.s <= m.W}
    /\ instance = NewInstance(LawVarDefs(hdlmod), FALSE, << >>)
    /\ \E a \in WideValues(hdlmod.W, LawChunksFor(hdlmod)) :
       \E b \in (IF hdlmod.kind = "sub"
                 THEN WideValues(hdlmod.W, LawChunksFor(hdlmod)) ELSE {<< >>}) :
          \E m1 \in {StateSet(instance, enableTracing(instance, ZeroMemory(instance)),
                               "a", HostInt(a)).mem} :
             data8 = IF hdlmod.kind = "sub"
                     THEN StateSet(instance, m1, "b", HostInt(b)).mem ELSE m1
    /\ call = [op |-> "none", pre |-> data8, fault |-> FALSE, borrows |-> << >>]
    /\ saved = << >>

\* _eval of the round-trip module: two wide assignments in sequence, the
\* second reading what the first stored
EvalRoundTrip ==
    /\ hdlmod.kind = "roundtrip"
    /\ \E m1 \in {wideShiftLeftConst(data8, Ofs(instance, "tmp"), Ofs(instance, "a"),
                                     NumChunksOf(hdlmod.W), hdlmod.s)} :
          data8' = wideShiftRightConst(m1, Ofs(instance, "result"), Ofs(instance, "tmp"),
                                       NumChunksOf(hdlmod.W), hdlmod.s, FALSE)
    /\ call' = [op |-> "roundtrip", pre |-> data8, fault |-> FALSE, borrows |-> << >>]
    /\ UNCHANGED << hdlmod, instance, saved >>

\* _eval of the sub module: result = a - b
EvalWideSub ==
    /\ hdlmod.kind = "sub"
    /\ \E r \in {wideSub(data8, Ofs(instance, "a"), Ofs(instance, "b"),
                          Ofs(instance, "result"), NumChunksOf(hdlmod.W))} :
          /\ data8' = r.mem
          /\ call' = [op |-> "sub", pre |-> data8, fault |-> FALSE, borrows |-> r.borrows]
    /\ UNCHANGED << hdlmod, instance, saved >>

LawNext == EvalRoundTrip \/ EvalWideSub

SpecLaws == LawInit /\ [][LawNext]_vars

\* bit j of the number a chunk sequence stands for (chunk 1 least significant)
BitOf(chunks, j) == I32And(I32ShrU(chunks[(j \div 32) + 1], j % 32), 1)

\* C11: for a wide width W, a W-bit value a and 0 <= s <= W, after
\* tmp = a << s; result = tmp >> s the variable result holds a AND
\* (2^(W-s) - 1): bits 0 .. W-s-1 of a, and 0 in every bit above them
C11_ShiftRoundTrip ==
    call.op = "roundtrip" =>
        \A j \in 0..(32 * NumChunksOf(hdlmod.W) - 1) :
            BitOf(WideResult, j)
              = IF j < hdlmod.W - hdlmod.s THEN BitOf(WideOperand("a"), j) ELSE 0

\* C12: for an N-chunk value a and a constant amount s >= 0 the constant
\* left shift stores (a * 2^s) mod 2^(32 N), bit j of the result being bit
\* j - s of a (0 below s), and the constant logical right shift stores
\* floor(a / 2^s), bit j of the result being bit j + s of a (0 from 32 N on);
\* amounts that are multiples of 32, that cross chunks and that reach the
\* full width are among those checked
C12_ConstShiftExact ==
    (call.op = "const" /\ hdlmod.op \in {"shiftl", "shiftr"}) =>
        \A j \in 0..(32 * NumChunksOf(hdlmod.W) - 1) :
            BitOf(WideResult, j)
              = IF hdlmod.op = "shiftl"
                THEN (IF j >= hdlmod.s THEN BitOf(WideOperand("a"), j - hdlmod.s) ELSE 0)
                ELSE (IF j + hdlmod.s < 32 * NumChunksOf(hdlmod.W)
                      THEN BitOf(WideOperand("a"), j + hdlmod.s) ELSE 0)

\* a left shift by 33 has carried bits across two chunk boundaries
C12_Witness ==
    /\ call.op = "const" /\ hdlmod.op = "shiftl" /\ hdlmod.s = 33
    /\ WideOperand("a") = << -1, -1, -1 >>
    /\ WideResult = << 0, -2, -1 >>

\* the 16-bit halves of a chunk sequence, least significant first
Halves(chunks) ==
    [k \in 1..(2 * Len(chunks)) |->
        IF k % 2 = 1 THEN Lo16(chunks[(k + 1) \div 2]) ELSE Hi16(chunks[k \div 2])]

\* a - b on sequences of halves by the school method, from half k on
RECURSIVE RefSubHalves(_, _, _, _)
RefSubHalves(ha, hb, k, borrow) ==
    IF k > Len(ha) THEN << >>
    ELSE IF ha[k] - hb[k] - borrow < 0
         THEN << ha[k] - hb[k] - borrow + Half >> \o RefSubHalves(ha, hb, k + 1, 1)
         ELSE << ha[k] - hb[k] - borrow >> \o RefSubHalves(ha, hb, k + 1, 0)

\* the chunks of (a - b) mod 2^(32 N)
RefSub(a, b) ==
    [i \in 1..Len(a) |->
        MkI32(RefSubHalves(Halves(a), Halves(b), 1, 0)[2 * i],
              RefSubHalves(Halves(a), Halves(b), 1, 0)[2 * i - 1])]

\* left < right + borrow for chunks read as unsigned numbers, borrow in {0, 1}
RefBorrow(left, right, borrow) ==
    \/ Hi16(left) < Hi16(right)
    \/ Hi16(left) = Hi16(right) /\ Lo16(left) < Lo16(right) + borrow

\* the borrow fed into chunk i (1-based): 0 for the first chunk
BorrowInto(i) == IF i = 1 THEN 0 ELSE call.borrows[i - 1]

\* C13: after result = a - b on N-chunk operands the destination holds
\* (a - b) mod 2^(32 N), and the borrow fed into chunk i+1 is 1 exactly when
\* left_i < right_i + borrow_i
C13_WideSubExact ==
    call.op = "sub" =>
        /\ WideResult = RefSub(WideOperand("a"), WideOperand("b"))
        /\ \A i \in 1..(NumChunksOf(hdlmod.W) - 1) :
               call.borrows[i]
                 = Bool01(RefBorrow(WideOperand("a")[i], WideOperand("b")[i], BorrowInto(i)))

\* 2^64 - 1 on 96 bits: the borrow runs through two chunks, the second of
\* them by left = right with a borrow coming in
C13_Witness ==
    /\ call.op = "sub" /\ hdlmod.W = 96
    /\ WideOperand("a") = << 0, 0, 1 >>
    /\ WideOperand("b") = << 1, 0, 0 >>
    /\ WideResult = << -1, -1, 0 >>
    /\ call.borrows = << 1, 1 >>

----------------------------------------------------------------------------
(* Specification SpecSettle: powercycle, eval and proxy writes on modules  *)
(* that settle within the rounds eval allows, modules that need more, and  *)
(* a module whose _eval never reaches a fixed point.                       *)

\* out = out + 1, with the empty _change_request the tests' makeModule gives
StepModule ==
    makeModule(<< VarDef("clk", 1, FALSE), VarDef("out", 8, TRUE) >>,
               << makeAssign("out", 8,
                     makeBinop("add", makeVarRef("out", 8), makeConst(1, 8), 8)) >>,
               << >>, FALSE, << >>)

SettleLimits == {1, 9, 10, 12}

SettleModules == {HoldModule, StepModule} \cup {CountModule(K) : K \in SettleLimits}

SettleInit == InitOf(SettleModules)

SettleNext == Powercycle \/ Eval \/ ProxyWrite

SpecSettle == SettleInit /\ [][SettleNext]_vars

\* a round of _eval and _change_request stores no value that differs from
\* the one in place
EvalFixedPoint == callBlocks(data8, instance, hdlmod, << "_eval", "_change_request" >>) = data8

----------------------------------------------------------------------------
(* Specification SpecTrace: tick2, resetTrace and proxy writes with the    *)
(* write offset of the trace ring at its start or a few records before its *)
(* end.  The memory holds the first and the last MaxTick2Reps record       *)
(* slots of the ring; a tick2 call is taken when the records it appends    *)
(* fall into these slots.                                                  *)

\* out = clk, next to a 64-bit output that makes the trace record 16 bytes
ClockModule ==
    makeModule(<< VarDef("clk", 1, FALSE), VarDef("out", 8, TRUE), VarDef("pad", 64, TRUE) >>,
               << makeAssign("out", 8, makeVarRef("clk", 1)) >>,
               << >>, FALSE, << >>)

TraceModules == {HoldModule, ClockModule}

\* number of records copyTraceRec appends before $$tofs is back at the start:
\* the least n with n * outputbytes >= traceEndOffset - traceStartOffset
TraceSlots(inst) == (TraceBufferSize - 1) \div inst.outputbytes

\* address of record slot q of the ring
SlotAddr(inst, q) == inst.traceStartOffset + q * inst.outputbytes

\* slot q is one of the slots the memory holds
SlotHeld(inst, q) == q < MaxTick2Reps \/ q >= TraceSlots(inst) - MaxTick2Reps

RingMemory(inst) ==
    [x \in (0..(SlotAddr(inst, MaxTick2Reps) - 1))
           \cup (SlotAddr(inst, TraceSlots(inst) - MaxTick2Reps)
                   ..(SlotAddr(inst, TraceSlots(inst)) - 1)) |-> 0]

\* the memory after init() and tick2(k), 0 <= k < TraceSlots: the modules
\* leave the same state after every repetition, so the k records are k
\* copies of the record the first repetition appends and $$tofs is k
\* records from the start
afterTicks(inst, hmod, k) ==
    IF k = 0 THEN enableTracing(inst, RingMemory(inst))
    ELSE With(tick2(inst, hmod, enableTracing(inst, RingMemory(inst)), 1).mem, LAMBDA s1 :
         StW([x \in DOMAIN s1 |->
                 IF x >= inst.traceStartOffset
                      /\ (x - inst.traceStartOffset) \div inst.outputbytes < k
                 THEN s1[inst.traceStartOffset
                           + ((x - inst.traceStartOffset) % inst.outputbytes)]
                 ELSE s1[x]],
             Ofs(inst, TRACEOFS), SlotAddr(inst, k)))

TraceStarts(inst) == {0} \cup ((TraceSlots(inst) - MaxTick2Reps)..(TraceSlots(inst) - 1))

TraceInit ==
    /\ hdlmod \in TraceModules
    /\ instance = NewInstance(hdlmod.vardefs, hdlmod.hasPool, hdlmod.pool)
    /\ \E k \in TraceStarts(instance) :
          /\ data8 = afterTicks(instance, hdlmod, k)
          /\ call = [op |-> "ticked", reps |-> k, err |-> FALSE]
    /\ saved = << >>

\* slot index of the write offset
WriteSlot(inst, mem) ==
    (LdW(mem, Ofs(inst, TRACEOFS)) - inst.traceStartOffset) \div inst.outputbytes

\* the next reps records fall into slots the memory holds
RingRoom(reps) ==
    \A j \in 0..(reps - 1) :
        SlotHeld(instance, (WriteSlot(instance, data8) + j) % TraceSlots(instance))

\* tick2(iters) with the ring at any held position
RingTick2 ==
    /\ Returned
    /\ \E iters \in TickIters :
          /\ RingRoom(IF iters = 0 THEN MaxTick2Reps ELSE iters)
          /\ \E r \in {tick2(instance, hdlmod, data8, iters)} :
                /\ data8' = r.mem
                /\ call' = [op |-> "tick2", iters |-> iters, reps |-> r.reps,
                            done |-> r.done, err |-> r.fault, pre |-> data8]
    /\ UNCHANGED << hdlmod, instance, saved >>

TraceNext == RingTick2 \/ ResetTrace \/ ProxyWrite

SpecTrace == TraceInit /\ [][TraceNext]_vars

\* the first len bytes of the state region
StateHead(mem, len) == [i \in 1..len |-> mem[i - 1]]

\* the len bytes stored from addr on
BytesAt(mem, addr, len) == [i \in 1..len |-> mem[addr + i - 1]]

\* C15: once tracing is enabled $$tofs stays in [TRACEBUF, $$tend) and a
\* whole number of records from TRACEBUF; a copyTraceRec (one tick2
\* repetition) writes $$treclen bytes, all of them inside the ring, changes
\* no other byte behind the state region, and leaves $$tofs advanced by
\* $$treclen, or at TRACEBUF when the advanced offset is not below $$tend
C15_TraceRing ==
    /\ LdW(data8, Ofs(instance, TRACEOFS)) >= Ofs(instance, TRACEBUF)
    /\ LdW(data8, Ofs(instance, TRACEOFS)) < LdW(data8, Ofs(instance, TRACEEND))
    /\ (LdW(data8, Ofs(instance, TRACEOFS)) - Ofs(instance, TRACEBUF))
          % LdW(data8, Ofs(instance, TRACERECLEN)) = 0
    /\ (call.op = "tick2" /\ call.reps = 1) =>
          \E pofs \in {LdW(call.pre, Ofs(instance, TRACEOFS))} :
          \E len \in {LdW(call.pre, Ofs(instance, TRACERECLEN))} :
             /\ pofs >= Ofs(instance, TRACEBUF)
             /\ pofs + len <= Ofs(instance, TRACEBUF) + TraceBufferSize
             /\ BytesAt(data8, pofs, len) = StateHead(data8, len)
             /\ \A x \in DOMAIN data8 :
                   (x >= instance.statebytes /\ x \notin pofs..(pofs + len - 1)
                      /\ x \notin Ofs(instance, TRACEOFS)..(Ofs(instance, TRACEOFS) + 3))
                   => data8[x] = call.pre[x]
             /\ LdW(data8, Ofs(instance, TRACEOFS))
                  = IF pofs + len < LdW(call.pre, Ofs(instance, TRACEEND))
                    THEN pofs + len ELSE Ofs(instance, TRACEBUF)

\* a copyTraceRec that wrote the last slot of the ring and set $$tofs back
C15_Witness ==
    /\ call.op = "tick2" /\ call.reps = 1 /\ call.done
    /\ WriteSlot(instance, call.pre) = TraceSlots(instance) - 1
    /\ LdW(data8, Ofs(instance, TRACEOFS)) = Ofs(instance, TRACEBUF)
    /\ LdB(data8, Ofs(instance, "out")) = 1

\* the memory after clk:=0, eval, clk:=1, eval on mem
AfterClockHigh(mem) ==
    eval(instance, hdlmod,
         makeSetVariableFunction(instance,
             eval(instance, hdlmod, makeSetVariableFunction(instance, mem, "clk", 0)).mem,
             "clk", 1)).mem

\* the memory after the clk=1 eval of repetition i of a tick2 started on mem
\* (the trace ring is no operand of eval)
RECURSIVE AfterRepetition(_, _)
AfterRepetition(mem, i) ==
    IF i = 0 THEN mem ELSE AfterClockHigh(AfterRepetition(mem, i - 1))

\* the slots written by the last tick2 call
WrittenSlots ==
    {(WriteSlot(instance, call.pre) + i - 1) % TraceSlots(instance) : i \in 1..call.reps}

\* C16: the record appended by repetition i of tick2 is a copy of the first
\* $$treclen bytes of the state as the clk=1 eval of that repetition left
\* them; the repetitions append one record each (the write offset has moved
\* by as many slots as repetitions ran and no other slot has changed)
C16_RecordAfterClockHigh ==
    call.op = "tick2" =>
        /\ \A i \in 1..call.reps :
              BytesAt(data8,
                      SlotAddr(instance,
                               (WriteSlot(instance, call.pre) + i - 1) % TraceSlots(instance)),
                      instance.outputbytes)
                = StateHead(AfterRepetition(call.pre, i), instance.outputbytes)
        /\ WriteSlot(instance, data8)
             = (WriteSlot(instance, call.pre) + call.reps) % TraceSlots(instance)
        /\ \A x \in DOMAIN data8 :
              (x >= instance.traceStartOffset
                 /\ (x - instance.traceStartOffset) \div instance.outputbytes \notin WrittenSlots)
              => data8[x] = call.pre[x]

\* two repetitions on out = clk started with out = 0: both records hold
\* out = 1, the value after the clk=1 phase, where the clk=0 phase left 0
C16_Witness ==
    /\ call.op = "tick2" /\ call.reps = 2 /\ call.done
    /\ hdlmod = ClockModule
    /\ LdB(call.pre, Ofs(instance, "out")) = 0
    /\ \A i \in 1..2 :
          LdB(data8, SlotAddr(instance, (WriteSlot(instance, call.pre) + i - 1)
                                           % TraceSlots(instance))
                       + Ofs(instance, "out")) = 1

----------------------------------------------------------------------------
(* Specification SpecRead: the host sets the outputs of a module with one  *)
(* output of every storage kind, runs tick2, moves the trace read offset   *)
(* with resetTrace and nextTrace and reads the outputs through the trace   *)
(* proxy.                                                                  *)

\* a vardef of an array of count elements of bits bits
ArrayDef(name, bits, count, isOutput) ==
    [name |-> name, left |-> bits - 1, count |-> count, isOutput |-> isOutput,
     isConst |-> FALSE, constValue |-> 0]

\* outputs of 1, 2, 4 and 8 bytes, a wide output and arrays of 1-, 2- and
\* 4-byte elements; no assignment in any block
ReadModule ==
    makeModule(<< VarDef("clk", 1, FALSE), VarDef("o8", 8, TRUE), VarDef("o16", 16, TRUE),
                  VarDef("o32", 32, TRUE), VarDef("o64", 64, TRUE), VarDef("o65", 65, TRUE),
                  ArrayDef("a8", 8, 2, TRUE), ArrayDef("a16", 16, 2, TRUE),
                  ArrayDef("a32", 32, 2, TRUE) >>,
               << >>, << >>, FALSE, << >>)

\* outputs the proxy has a setter for, with the value the host writes
ReadScalars ==
    ("o8" :> HostNum(129)) @@ ("o16" :> HostNum(33025)) @@ ("o32" :> HostNum(-2))
    @@ ("o65" :> HostInt(<< 3, 5, 1 >>))

\* outputs the state proxy returns a typed-array view for
ReadViews == {"o64", "a8", "a16", "a32"}

ReadOutputs == DOMAIN ReadScalars \cup ReadViews

ReadInit ==
    /\ hdlmod = ReadModule
    /\ \E inst \in {NewInstance(hdlmod.vardefs, hdlmod.hasPool, hdlmod.pool)} :
       \E k \in TraceStarts(inst) :
          /\ instance = [inst EXCEPT !.traceReadOffset = SlotAddr(inst, k)]
          /\ data8 = afterTicks(instance, hdlmod, k)
          /\ call = [op |-> "ticked", reps |-> k, err |-> FALSE]
    /\ saved = << >>

\* the host sets the outputs one after the other, in this order, before it
\* runs the design
ReadOrder == << "o8", "o16", "o32", "o64", "o65", "a8", "a16", "a32" >>

\* the number of outputs set so far, while the host is still setting them
Prepared == IF call.op = "ticked" THEN 0 ELSE IF call.op = "write" THEN call.n ELSE -1

Preparing(name) ==
    /\ Prepared >= 0 /\ Prepared < Len(ReadOrder)
    /\ name = ReadOrder[Prepared + 1]

\* state[name] = value for an output with a setter
ReadProxyWrite ==
    /\ \E name \in DOMAIN ReadScalars :
          /\ Preparing(name)
          /\ \E r \in {StateSet(instance, data8, name, ReadScalars[name])} :
                /\ data8' = r.mem
                /\ call' = [op |-> "write", err |-> r.err, n |-> Prepared + 1]
    /\ UNCHANGED << hdlmod, instance, saved >>

\* an element store through the view state[name] returns: the view lies on
\* the memory, from the byte offset and with the element type of the getter
viewSet(mem, vref, i, v) ==
    IF vref.type.count > 0 /\ LogicSize(vref.type.left) = 1
    THEN StB(mem, vref.offset + i, v)
    ELSE IF vref.type.count > 0 /\ LogicSize(vref.type.left) = 2
    THEN StH(mem, vref.offset + 2 * i, v)
    ELSE StW(mem, vref.offset + 4 * i, v)

\* state[name][i] = 200 + i
ViewWrite ==
    /\ \E name \in ReadViews :
          /\ Preparing(name)
          /\ data8' = viewSet(viewSet(data8, lookup(instance.globals, name), 0, 200),
                              lookup(instance.globals, name), 1, 201)
          /\ call' = [op |-> "write", err |-> FALSE, n |-> Prepared + 1]
    /\ UNCHANGED << hdlmod, instance, saved >>

\* slot index of the read offset
ReadSlot(inst) == (inst.traceReadOffset - inst.traceStartOffset) \div inst.outputbytes

\* nextTrace(), while the read offset stays in the slots the memory holds
NextTrace ==
    /\ Returned
    /\ SlotHeld(instance, (ReadSlot(instance) + 1) % TraceSlots(instance))
    /\ instance' = [instance EXCEPT !.traceReadOffset = nextTrace(instance)]
    /\ call' = [op |-> "nextTrace", err |-> FALSE]
    /\ UNCHANGED << hdlmod, data8, saved >>

\* trace[name]
TraceRead ==
    /\ Returned
    /\ \E name \in ReadOutputs :
          call' = [op |-> "read", name |-> name, err |-> FALSE,
                   value |-> proxyGet(data8, instance.traceReadOffset,
                                      lookup(instance.globals, name))]
    /\ UNCHANGED << hdlmod, instance, data8, saved >>

ReadNext == ReadProxyWrite \/ ViewWrite \/ RingTick2 \/ ResetTrace \/ NextTrace \/ TraceRead

SpecRead == ReadInit /\ [][ReadNext]_vars

\* the value the bytes [addr, addr + size(v)) of the memory hold for v: a
\* number for the sizes 1, 2, 4 and for wide variables (cut to the declared
\* width), the elements for arrays and for 8-byte variables
ValueAt(mem, addr, vref) ==
    IF vref.type.count > 0 /\ LogicSize(vref.type.left) = 1
    THEN [t |-> "Uint8Array", d |-> [i \in 1..vref.size |-> LdB(mem, addr + i - 1)]]
    ELSE IF vref.type.count > 0 /\ LogicSize(vref.type.left) = 2
    THEN [t |-> "Uint16Array",
          d |-> [i \in 1..(vref.size \div 2) |->
                    LdB(mem, addr + 2 * (i - 1)) + 256 * LdB(mem, addr + 2 * (i - 1) + 1)]]
    ELSE IF vref.type.count > 0
    THEN [t |-> "Uint32Array", d |-> RdChunks(mem, addr, vref.size \div 4)]
    ELSE IF vref.size = 1 THEN HostInt(<< LdB(mem, addr) >>)
    ELSE IF vref.size = 2 THEN HostInt(<< LdB(mem, addr) + 256 * LdB(mem, addr + 1) >>)
    ELSE IF vref.size = 4 THEN HostInt(<< LdW(mem, addr) >>)
    ELSE IF vref.size = 8 THEN [t |-> "Uint32Array", d |-> RdChunks(mem, addr, 2)]
    ELSE HostInt([i \in 1..proxyNumChunks(vref) |->
                     I32And(LdW(mem, addr + 4 * (i - 1)), bigMaskChunk(vref, i - 1))])

\* C17: for an output v of any storage size and a read offset r reached
\* through resetTrace and nextTrace, trace[v] returns the value held in the
\* bytes [r + offset(v), r + offset(v) + size(v)) of the ring
C17_TraceReadsRecord ==
    call.op = "read" =>
        call.value = ValueAt(data8, instance.traceReadOffset
                                      + lookup(instance.globals, call.name).offset,
                             lookup(instance.globals, call.name))

----------------------------------------------------------------------------
(* Specification SpecLoop: eval on modules whose _eval is a while loop.    *)
(* The generated function has no bound of its own, so a call is followed   *)
(* pass by pass: call.running is TRUE from the call of eval until the loop *)
(* has exited and eval has returned.  The host runs on the same thread and *)
(* can do nothing while a call is running.                                 *)

\* a while statement as the frontend builds it
makeWhile(precond, loopcond, body, inc) ==
    [op |-> "while", precond |-> precond, loopcond |-> loopcond, body |-> body, inc |-> inc]

Nop == [op |-> "nop"]

\* while (loopcond) i = i + 1, with loopcond either i < 5 or the constant 1
WhileModule(loopcond) ==
    makeModule(<< VarDef("clk", 1, FALSE), VarDef("i", 8, TRUE) >>,
               << makeWhile(Nop, loopcond,
                            makeAssign("i", 8, makeBinop("add", makeVarRef("i", 8),
                                                         makeConst(1, 8), 8)),
                            Nop) >>,
               << >>, FALSE, << >>)

LoopConds == {makeBinop("lt", makeVarRef("i", 8), makeConst(5, 8), 1), makeConst(1, 1)}

LoopModules == {WhileModule(c) : c \in LoopConds}

\* one pass through the block of _while2wasm: precond, the exit test on
\* loopcond, body, inc, and the branch back to the loop head.
\* [mem, exit]; exit is TRUE when the pass left the loop
while2wasm(mem, globals, e) ==
    With(stmt2wasm([mem |-> mem, req |-> 0], globals, e.precond).mem, LAMBDA m1 :
    IF e2w(m1, globals, e.loopcond) = 0
    THEN [mem |-> m1, exit |-> TRUE]
    ELSE [mem |-> stmt2wasm(stmt2wasm([mem |-> m1, req |-> 0], globals, e.body),
                            globals, e.inc).mem,
          exit |-> FALSE])

LoopInit ==
    /\ hdlmod \in LoopModules
    /\ instance = NewInstance(hdlmod.vardefs, hdlmod.hasPool, hdlmod.pool)
    /\ data8 = enableTracing(instance, ZeroMemory(instance))
    /\ call = [op |-> "init", running |-> FALSE]
    /\ saved = << >>

\* state.i = value, or state.clk = value
LoopWrite ==
    /\ ~call.running
    /\ \E name \in HostNames, value \in {0, 1, 200} :
          data8' = StateSet(instance, data8, name, HostNum(value)).mem
    /\ call' = [op |-> "write", running |-> FALSE]
    /\ UNCHANGED << hdlmod, instance, saved >>

\* the host calls eval(): control enters _eval and reaches the loop head
LoopEval ==
    /\ ~call.running
    /\ call' = [op |-> "eval", running |-> TRUE]
    /\ UNCHANGED << hdlmod, instance, data8, saved >>

\* one pass of the loop; when it leaves the loop, _eval ends, the empty
\* _change_request reports no change and eval returns
WhilePass ==
    /\ call.running
    /\ \E r \in {while2wasm(data8, instance.globals, hdlmod.blocks["_eval"][1])} :
          /\ data8' = r.mem
          /\ call' = [call EXCEPT !.running = ~r.exit]
    /\ UNCHANGED << hdlmod, instance, saved >>

LoopNext == LoopWrite \/ LoopEval \/ WhilePass

SpecLoop == LoopInit /\ [][LoopNext]_vars /\ WF_vars(WhilePass)

\* C18: a while loop of the generated code exits after a bounded number of
\* passes even when its condition never becomes false, so that every call
\* of eval returns to the caller
C18_EvalReturns == [](call.running => <>(~call.running))

----------------------------------------------------------------------------
(* Specification SpecReadmem: powercycle on a module whose _eval_initial   *)
(* is $readmem(fname, rom), with the host's file callback in the field     *)
(* getFileData of the instance.  A callback is "none" (the field is null)  *)
(* or knows one file: its name (character codes) and what it returns for   *)
(* it, a string given by its lines of hex digits or a value of another     *)
(* type; for every other name it returns nothing.                          *)

\* the file name "hex" as the constant the frontend stores: the first
\* character in the most significant byte
FileName == << 104, 101, 120 >>

FileNameValue == 104 * 65536 + 101 * 256 + 120

\* clk, out, the 12-byte array rom and two variables laid out next to it;
\* the constant pool holds the file name
RomModule ==
    [makeModule(<< VarDef("clk", 1, FALSE), VarDef("out", 8, TRUE),
                   ArrayDef("rom", 8, 12, FALSE), VarDef("lo", 32, FALSE),
                   VarDef("hi", 8, FALSE) >>,
                << >>, << >>, TRUE, << ConstDef("fname", 72, FileNameValue) >>)
       EXCEPT !.blocks["_eval_initial"] =
                 << [op |-> "funccall", funcname |-> "$readmem",
                     args |-> << makeVarRef("fname", 72), makeVarRef("rom", 8) >>] >>]

\* the number of bytes of rom
RomBytes == RomModule.vardefs[3].count

\* n lines of two hex digits, the line k holding A0 + k
HexLines(n) == [k \in 1..n |-> << 10, k % 16 >>]

FileTexts ==
    {HexLines(n) : n \in {0, 3, RomBytes, RomBytes + 1, RomBytes + 5}}
    \cup {<< << 1 >>, << >>, << 15, 15 >> >>}

Callbacks ==
    {[kind |-> "none"]}
    \cup {[kind |-> "files", name |-> nm, data |-> [t |-> "string", lines |-> tx]] :
             nm \in {FileName, << 120 >>}, tx \in FileTexts}
    \cup {[kind |-> "files", name |-> FileName, data |-> [t |-> "object"]]}

\* this.getFileData && this.getFileData(fn): [t |-> "null"] for no data
getFileData(inst, fn) ==
    IF inst.getFileData.kind = "none" THEN [t |-> "null"]
    ELSE IF inst.getFileData.name = fn THEN inst.getFileData.data
    ELSE [t |-> "null"]

\* the name read from the memory at p: up to 255 bytes, a zero byte ends
\* it, every character is put in front of those read before
RECURSIVE readFileName(_, _, _, _)
readFileName(mem, p, i, fn) ==
    IF i >= 255 \/ ByteAt(mem, p + i) = 0 THEN fn
    ELSE readFileName(mem, p, i + 1, << ByteAt(mem, p + i) >> \o fn)

\* parseInt(s, 16) of a line of hex digits
RECURSIVE parseHex(_)
parseHex(s) == IF s = << >> THEN 0 ELSE parseHex(SubSeq(s, 1, Len(s) - 1)) * 16 + s[Len(s)]

\* split, filter and map of $readmem: the numbers of the non-empty lines
RECURSIVE parseLines(_)
parseLines(lines) ==
    IF lines = << >> THEN << >>
    ELSE IF Head(lines) = << >> THEN parseLines(Tail(lines))
    ELSE << parseHex(Head(lines)) >> \o parseLines(Tail(lines))

\* data8[p_rom + i] = data[i] for every i
RECURSIVE storeBytes(_, _, _)
storeBytes(mem, addr, data) ==
    IF data = << >> THEN mem
    ELSE storeBytes(StB(mem, addr, Head(data) % 256), addr + 1, Tail(data))

\* a $readmem that marks the first byte of the destination before it asks
\* for the file
readmem_marking(inst, mem, p_filename, p_rom) ==
    IF getFileData(inst, readFileName(mem, p_filename, 0, << >>)).t # "string"
    THEN [mem |-> StB(mem, p_rom, 255), err |-> TRUE,
          fn |-> readFileName(mem, p_filename, 0, << >>)]
    ELSE [mem |-> storeBytes(mem, p_rom,
                     parseLines(getFileData(inst,
                                    readFileName(mem, p_filename, 0, << >>)).lines)),
          err |-> FALSE, fn |-> readFileName(mem, p_filename, 0, << >>)]

\* the import $readmem(p_filename, p_rom): [mem, err, fn]; err is the
\* HDLError thrown for no file or for a file that is no string
readmem(inst, mem, p_filename, p_rom) ==
    With(readFileName(mem, p_filename, 0, << >>), LAMBDA fn :
    With(getFileData(inst, fn), LAMBDA filedata :
    IF filedata.t # "string"
    THEN [mem |-> mem, err |-> TRUE, fn |-> fn]
    ELSE [mem |-> storeBytes(mem, p_rom, parseLines(filedata.lines)),
          err |-> FALSE, fn |-> fn]))

ReadmemInit ==
    /\ hdlmod = RomModule
    /\ \E cb \in Callbacks :
          instance = [getFileData |-> cb]
                       @@ NewInstance(hdlmod.vardefs, hdlmod.hasPool, hdlmod.pool)
    /\ data8 = enableTracing(instance, ZeroMemory(instance))
    /\ call = [op |-> "init", err |-> FALSE]
    /\ saved = << >>

\* powercycle(): the state is cleared, the initial values are set and
\* _ctor_var_reset runs; _eval_initial calls $readmem with the addresses of
\* fname and rom, and its error ends powercycle; the other blocks are empty,
\* so the first repetition of the loop reports no change.  entry is the
\* memory at the call of $readmem
PowercycleRom ==
    /\ \E m0 \in {callBlocks(setInitialValues(instance, clearMutableState(instance, data8)).mem,
                             instance, hdlmod, << "_ctor_var_reset" >>)} :
       \E r \in {readmem(instance, m0, Ofs(instance, "fname"), Ofs(instance, "rom"))} :
          /\ data8' = IF r.err THEN r.mem
                      ELSE callBlocks(r.mem, instance, hdlmod,
                                      << "_eval_settle", "_eval", "_change_request" >>)
          /\ call' = [op |-> "powercycle", err |-> r.err, fn |-> r.fn, entry |-> m0]
    /\ UNCHANGED << hdlmod, instance, saved >>

\* state.rom[i] = value through the view the state proxy returns, or
\* state.lo = value, state.hi = value
RomWrite ==
    /\ \/ \E i \in {0, RomBytes - 1} :
             data8' = StB(data8, Ofs(instance, "rom") + i, 77)
       \/ \E name \in {"lo", "hi"} :
             data8' = StateSet(instance, data8, name, HostNum(85)).mem
    /\ call' = [op |-> "write", err |-> FALSE]
    /\ UNCHANGED << hdlmod, instance, saved >>

ReadmemNext == PowercycleRom \/ RomWrite

SpecReadmem == ReadmemInit /\ [][ReadmemNext]_vars

\* C19: when the file callback yields no data for the name passed to
\* $readmem, the call raises an error and the memory is byte for byte what
\* it was when $readmem was called
C19_MissingFileNoWrite ==
    (call.op = "powercycle" /\ getFileData(instance, call.fn).t = "null") =>
        /\ call.err
        /\ data8 = call.entry

\* a powercycle with rom and its neighbours set by the host and a callback
\* that knows another file only
C19_Witness ==
    /\ call.op = "powercycle" /\ call.err /\ call.fn = FileName
    /\ instance.getFileData.kind = "files" /\ instance.getFileData.name # FileName
    /\ LdB(data8, Ofs(instance, "hi")) = 0
    /\ LdB(data8, Ofs(instance, "fname")) = 120

\* the numbers $readmem reads from the file the callback returns for fn
FileEntries(inst, fn) ==
    IF getFileData(inst, fn).t = "string" THEN parseLines(getFileData(inst, fn).lines)
    ELSE << >>

\* the bytes of the state and of the constant pool outside rom
OutsideRom(inst) ==
    (0..(inst.traceStartOffset - 1))
        \ (Ofs(inst, "rom")..(Ofs(inst, "rom") + RomBytes - 1))

\* C20: when the file has more entries than rom holds, $readmem fails with
\* an error and no byte outside the byte range of rom is written
C20_TooManyEntries ==
    (call.op = "powercycle" /\ Len(FileEntries(instance, call.fn)) > RomBytes) =>
        /\ call.err
        /\ \A a \in OutsideRom(instance) : ByteAt(data8, a) = ByteAt(call.entry, a)

----------------------------------------------------------------------------
(* Specification SpecFinish: two instances of a module whose _eval calls   *)
(* $finish when go = 1 and $stop when go = 2 and then stores out = go.     *)
(* instance and data8 hold one entry for each of the two instances; the    *)
(* host drives both, the first one with tick and tick2 too.                *)

makeIf(c, l, r) == [op |-> "if", cond |-> c, left |-> l, right |-> r]

makeFuncCall(name) == [op |-> "funccall", funcname |-> name, args |-> << >>]

FinishModule ==
    makeModule(<< VarDef("clk", 1, FALSE), VarDef("out", 8, TRUE), VarDef("go", 8, FALSE) >>,
               << makeIf(makeBinop("eq", makeVarRef("go", 8), makeConst(1, 8), 1),
                         makeFuncCall("$finish"), Nop),
                  makeIf(makeBinop("eq", makeVarRef("go", 8), makeConst(2, 8), 1),
                         makeFuncCall("$stop"), Nop),
                  makeAssign("out", 8, makeVarRef("go", 8)) >>,
               << >>, FALSE, << >>)

Instances == {1, 2}

\* the memory of a new instance with its two flags, both false
FlaggedMemory(inst) ==
    (FinishedFlag :> 0) @@ (StoppedFlag :> 0) @@ enableTracing(inst, ZeroMemory(inst))

FinishInit ==
    /\ hdlmod = FinishModule
    /\ instance = [i \in Instances |->
                      NewInstance(hdlmod.vardefs, hdlmod.hasPool, hdlmod.pool)]
    /\ data8 = [i \in Instances |-> FlaggedMemory(instance[i])]
    /\ call = [op |-> "init", inst |-> 1]
    /\ saved = << >>

\* state.go = value on the instance i
FinishWrite ==
    /\ \E i \in Instances, value \in {0, 1, 2} :
          /\ data8' = [data8 EXCEPT ![i] = StateSet(instance[i], data8[i], "go",
                                                    HostNum(value)).mem]
          /\ call' = [op |-> "write", inst |-> i]
    /\ UNCHANGED << hdlmod, instance, saved >>

FinishPowercycle ==
    /\ \E i \in Instances :
          /\ data8' = [data8 EXCEPT ![i] = powercycle(instance[i], hdlmod, data8[i]).mem]
          /\ call' = [op |-> "powercycle", inst |-> i]
    /\ UNCHANGED << hdlmod, instance, saved >>

FinishEval ==
    /\ \E i \in Instances :
          /\ data8' = [data8 EXCEPT ![i] = eval(instance[i], hdlmod, data8[i]).mem]
          /\ call' = [op |-> "eval", inst |-> i]
    /\ UNCHANGED << hdlmod, instance, saved >>

FinishTick ==
    /\ data8' = [data8 EXCEPT ![1] = tick(instance[1], hdlmod, data8[1]).mem]
    /\ call' = [op |-> "tick", inst |-> 1]
    /\ UNCHANGED << hdlmod, instance, saved >>

\* tick2(1) on the first instance while its ring holds no record
FinishTick2 ==
    /\ LdW(data8[1], Ofs(instance[1], TRACEOFS)) = instance[1].traceStartOffset
    /\ data8' = [data8 EXCEPT ![1] = tick2(instance[1], hdlmod, data8[1], 1).mem]
    /\ call' = [op |-> "tick2", inst |-> 1]
    /\ UNCHANGED << hdlmod, instance, saved >>

FinishNext == FinishWrite \/ FinishPowercycle \/ FinishEval \/ FinishTick \/ FinishTick2

SpecFinish == FinishInit /\ [][FinishNext]_vars

\* state.go and state.out of the instance i
GoOf(mem, i) == LdB(mem[i], Ofs(instance[i], "go"))

OutOf(mem, i) == LdB(mem[i], Ofs(instance[i], "out"))

\* C21: a call on one instance leaves the flags of the other as they are;
\* eval, tick and tick2 still run (out = go afterwards), set finished when
\* go = 1 and stopped when go = 2 and never clear a flag that is set; only
\* a powercycle of the instance itself clears its flags
C21_FlagsStick ==
    [][\A i \in Instances :
          /\ call'.inst # i =>
                /\ isFinished(data8'[i]) = isFinished(data8[i])
                /\ isStopped(data8'[i]) = isStopped(data8[i])
          /\ (call'.inst = i /\ call'.op \in {"eval", "tick", "tick2"}) =>
                /\ OutOf(data8', i) = GoOf(data8, i)
                /\ isFinished(data8'[i]) = (isFinished(data8[i]) \/ GoOf(data8, i) = 1)
                /\ isStopped(data8'[i]) = (isStopped(data8[i]) \/ GoOf(data8, i) = 2)
          /\ (call'.inst = i /\ call'.op = "write") =>
                /\ isFinished(data8'[i]) = isFinished(data8[i])
                /\ isStopped(data8'[i]) = isStopped(data8[i])
          /\ (call'.inst = i /\ call'.op = "powercycle") =>
                /\ ~isFinished(data8'[i])
                /\ ~isStopped(data8'[i])]_vars

\* the first instance is finished and stopped and has run an eval with
\* go = 0 since, the second one has been through a powercycle and has
\* neither flag
C21_Witness ==
    /\ call.op = "eval" /\ call.inst = 1
    /\ isFinished(data8[1]) /\ isStopped(data8[1])
    /\ GoOf(data8, 1) = 0 /\ OutOf(data8, 1) = 0
    /\ ~isFinished(data8[2]) /\ ~isStopped(data8[2])
    /\ GoOf(data8, 2) = 0 /\ OutOf(data8, 2) = 0
    /\ LdW(data8[1], Ofs(instance[1], TRACEOFS)) > instance[1].traceStartOffset

----------------------------------------------------------------------------
(* Specification SpecLayout: the constructor on modules of up to three     *)
(* variables of every storage kind, with and without constants and a       *)
(* constant pool, and with variable declarations inside a block.  The      *)
(* constructor runs genMemory (genTypes, then the memory is sized) and     *)
(* then genFuncs, where genFunction promotes the block-local declarations  *)
(* of reference type into the global layout.                               *)

isReferenceType(dt) == getDataTypeSize(dt) > 8

isVarDecl(e) == e.op = "vardecl"

\* a variable declaration inside a block
VarDecl(name, bits, count) ==
    [op |-> "vardecl", name |-> name, left |-> bits - 1, count |-> count,
     isOutput |-> FALSE, isConst |-> FALSE, constValue |-> 0]

\* genFunction: the declarations of reference type among the expressions
\* of the block are added to the global layout
RECURSIVE genFunction(_, _)
genFunction(globals, exprs) ==
    IF exprs = << >> THEN globals
    ELSE genFunction(IF isVarDecl(Head(exprs))
                        /\ isReferenceType([left |-> Head(exprs).left,
                                            count |-> Head(exprs).count])
                     THEN addVar(globals, Head(exprs)) ELSE globals,
                     Tail(exprs))

\* the blocks of a module in the order genFuncs goes through them
UnitFunctions ==
    << "_ctor_var_reset", "_eval_initial", "_eval_settle", "_eval", "_change_request" >>

RECURSIVE genFuncsFrom(_, _, _)
genFuncsFrom(globals, hmod, names) ==
    IF names = << >> THEN globals
    ELSE genFuncsFrom(genFunction(globals, hmod.blocks[Head(names)]), hmod, Tail(names))

genFuncs(globals, hmod) == genFuncsFrom(globals, hmod, UnitFunctions)

\* the constructor: genMemory, which fixes membytes, and then genFuncs
Construct(hmod) ==
    With(NewInstance(hmod.vardefs, hmod.hasPool, hmod.pool), LAMBDA inst :
         [inst EXCEPT !.globals = genFuncs(inst.globals, hmod)])

\* the storage kinds a variable is drawn from: [bits, count, isOutput]
LayoutKinds ==
    {<< 1, 0, FALSE >>, << 8, 0, TRUE >>, << 16, 0, TRUE >>, << 32, 0, FALSE >>,
     << 64, 0, FALSE >>, << 65, 0, TRUE >>, << 8, 3, TRUE >>, << 16, 3, FALSE >>}

\* the widths of a module with one variable
LayoutWidths == {1, 7, 8, 9, 16, 17, 32, 33, 64, 65, 96, 97, 128, 129, 160}

LayoutNames == << "va", "vb", "vc" >>

KindDef(k, i) ==
    [name |-> LayoutNames[i], left |-> k[1] - 1, count |-> k[2], isOutput |-> k[3],
     isConst |-> FALSE, constValue |-> 0]

LayoutVarDefs ==
    {<< >>}
    \cup {<< VarDef("va", W, o) >> : W \in LayoutWidths, o \in BOOLEAN}
    \cup {<< KindDef(k1, 1), KindDef(k2, 2) >> : k1 \in LayoutKinds, k2 \in LayoutKinds}
    \cup {<< KindDef(k1, 1), KindDef(<< 1, 0, FALSE >>, 2), KindDef(k3, 3) >> :
             k1 \in LayoutKinds, k3 \in LayoutKinds}
    \cup {<< KindDef(k1, 1), ConstDef("vb", 16, 1000), KindDef(k3, 3) >> :
             k1 \in {<< 8, 0, TRUE >>, << 32, 0, FALSE >>}, k3 \in LayoutKinds}

\* the declarations inside _eval and _change_request: none, a local small
\* enough for a WASM local, a wide local, an array of 4 KiB, and the same
\* name declared in both blocks
LayoutDecls ==
    {<< << >>, << >> >>,
     << << VarDecl("t", 8, 0) >>, << >> >>,
     << << VarDecl("t", 96, 0) >>, << >> >>,
     << << VarDecl("t", 32, 1024) >>, << >> >>,
     << << VarDecl("t", 96, 0) >>, << VarDecl("t", 65, 0), VarDecl("u", 8, 16) >> >>}

LayoutPools == {<< FALSE, << >> >>, << TRUE, << >> >>, << TRUE, << ConstDef("k", 72, 5) >> >>}

LayoutModules ==
    {[makeModule(vds, d[1], d[2], p[1], p[2]) EXCEPT !.blocks["_eval_settle"] = << Nop >>] :
        vds \in LayoutVarDefs, d \in LayoutDecls, p \in LayoutPools}

NotBuilt == [built |-> FALSE]

LayoutInit ==
    /\ hdlmod \in LayoutModules
    /\ instance = NotBuilt
    /\ data8 = << >>
    /\ call = [op |-> "none"]
    /\ saved = << >>

\* new HDLModuleWASM(hdlmod, constpool)
New ==
    /\ instance = NotBuilt
    /\ instance' = [built |-> TRUE] @@ Construct(hdlmod)
    /\ call' = [op |-> "new"]
    /\ UNCHANGED << hdlmod, data8, saved >>

LayoutNext == New

SpecLayout == LayoutInit /\ [][LayoutNext]_vars

\* the variables of the module that are laid out by genTypes in the state
StateVarDefs == {hdlmod.vardefs[i] : i \in {j \in DOMAIN hdlmod.vardefs : ~hdlmod.vardefs[j].isConst}}

\* the bytes of an entry of the layout
BytesOf(rec) == rec.offset..(rec.offset + rec.size - 1)

\* C22: after construction every output-flagged variable lies in full in
\* the bytes [0, outputbytes), no other variable of the module has a byte
\* there, and outputbytes is a multiple of 8
C22_OutputsFirst ==
    instance.built =>
        /\ instance.outputbytes % 8 = 0
        /\ \A vd \in StateVarDefs :
              IF vd.isOutput
              THEN BytesOf(lookup(instance.globals, vd.name)) \subseteq
                       0..(instance.outputbytes - 1)
              ELSE BytesOf(lookup(instance.globals, vd.name)) \cap
                       (0..(instance.outputbytes - 1)) = {}

\* a module with two outputs of 1 and 16 bytes around an input
C22_Witness ==
    /\ instance.built
    /\ Len(hdlmod.vardefs) = 3
    /\ hdlmod.vardefs[1].isOutput /\ hdlmod.vardefs[1].left = 64
    /\ ~hdlmod.vardefs[2].isOutput
    /\ hdlmod.vardefs[3].isOutput /\ hdlmod.vardefs[3].left = 7
          /\ hdlmod.vardefs[3].count = 0
    /\ lookup(instance.globals, "vc").offset = 0
    /\ lookup(instance.globals, "va").offset = 8
    /\ instance.outputbytes = 24
    /\ lookup(instance.globals, "vb").offset = 24

\* C28: when construction completes every entry of the global layout, the
\* promoted block-local declarations included, lies inside the allocated
\* memory and shares no byte with another entry
C28_LayoutInMemory ==
    instance.built =>
        \A i \in DOMAIN instance.globals.locals :
            /\ BytesOf(instance.globals.locals[i]) \subseteq 0..(instance.membytes - 1)
            /\ \A j \in DOMAIN instance.globals.locals :
                  i # j => BytesOf(instance.globals.locals[i])
                              \cap BytesOf(instance.globals.locals[j]) = {}

\* the logic variables of the module with their widths: the variables and
\* constants genTypes lays out
LogicVarDefs ==
    {vd \in {hdlmod.vardefs[i] : i \in DOMAIN hdlmod.vardefs} :
        vd.count = 0 /\ HasVar(instance.globals, vd.name)}

\* the smallest number of words of wordBits bits that hold W bits
WordsFor(W, wordBits) ==
    CHOOSE n \in 1..W : n * wordBits >= W /\ (n - 1) * wordBits < W

\* C30: a logic type of W bits is stored in 1 byte if W <= 8, 2 if
\* W <= 16, 4 if W <= 32, 8 if W <= 64 and ceil(W / 32) * 4 bytes if W > 64
C30_LogicSize ==
    instance.built =>
        \A vd \in LogicVarDefs :
            lookup(instance.globals, vd.name).size =
                (IF vd.left + 1 <= 8 THEN 1
                 ELSE IF vd.left + 1 <= 16 THEN 2
                 ELSE IF vd.left + 1 <= 32 THEN 4
                 ELSE IF vd.left + 1 <= 64 THEN 8
                 ELSE WordsFor(vd.left + 1, 32) * 4)

\* C30 as the code has it: above 64 bits the size is ceil(W / 64) * 8
\* bytes, whole 64-bit words
C30_LogicSizeWords ==
    instance.built =>
        \A vd \in LogicVarDefs :
            lookup(instance.globals, vd.name).size =
                (IF vd.left + 1 <= 8 THEN 1
                 ELSE IF vd.left + 1 <= 16 THEN 2
                 ELSE IF vd.left + 1 <= 32 THEN 4
                 ELSE IF vd.left + 1 <= 64 THEN 8
                 ELSE WordsFor(vd.left + 1, 64) * 8)

\* a module with one variable of 129 bits, stored in 24 bytes
C30_Witness ==
    /\ instance.built
    /\ Len(hdlmod.vardefs) = 1 /\ hdlmod.vardefs[1].left = 128
    /\ lookup(instance.globals, "va").size = 24

----------------------------------------------------------------------------
(* Specification SpecConst: powercycle on modules with one constant of     *)
(* their own and one in the constant pool, of 8 to 96 bits, the host       *)
(* overwriting the constants through the state proxy in between.           *)

\* the constants: [bits, value in 32-bit chunks]
ConstKinds ==
    {<< 8, << 200 >> >>, << 16, << 40000 >> >>, << 32, << -2 >> >>,
     << 40, << 7, 129 >> >>, << 65, << 5, 0, 1 >> >>, << 96, << 1, 2, 3 >> >>}

\* the two forms of an HDLConstant for a kind: cvalue a number (the low 32
\* bits of a large value), or no number in cvalue for a large value
ConstForms(k) ==
    {makeConstValue(k[2])} \cup (IF Len(k[2]) > 1 THEN {makeBigConstValue(k[2])} ELSE {})

\* the constants in both forms: [bits, HDLConstant]
ConstPairs == UNION {{<< k[1], c >> : c \in ConstForms(k)} : k \in ConstKinds}

ConstModules ==
    {makeModule(<< VarDef("clk", 1, FALSE), VarDef("out", 8, TRUE),
                   ConstDefOf("cm", p1[1], p1[2]) >>,
                << makeAssign("out", 8, makeVarRef("clk", 1)) >>, << >>,
                TRUE, << ConstDefOf("cp", p2[1], p2[2]) >>) :
        p1 \in {p \in ConstPairs : p[1] \in {8, 96}}, p2 \in ConstPairs}
    \cup {makeModule(<< VarDef("clk", 1, FALSE), VarDef("out", 8, TRUE),
                        ConstDef("cm", 8, 200) >>,
                     << makeAssign("out", 8, makeVarRef("clk", 1)) >>, << >>,
                     FALSE, << >>)}

ConstInit == InitOf(ConstModules)

\* the constants of the module and of its pool
ConstDefs(hmod) ==
    {vd \in {hmod.vardefs[i] : i \in DOMAIN hmod.vardefs}
              \cup {hmod.pool[i] : i \in DOMAIN hmod.pool} : vd.isConst}

\* state[name] = 1 for a constant of the layout
ConstWrite ==
    /\ \E vd \in ConstDefs(hdlmod) :
          /\ HasVar(instance.globals, vd.name)
          /\ \E r \in {StateSet(instance, data8, vd.name, HostNum(1))} :
                /\ data8' = r.mem
                /\ call' = [op |-> "write", err |-> r.err]
    /\ UNCHANGED << hdlmod, instance, saved >>

ConstNext == Powercycle \/ Eval \/ ProxyWrite \/ ConstWrite

SpecConst == ConstInit /\ [][ConstNext]_vars

\* the value of a constant as the state proxy returns a value of its
\* storage: one chunk up to 32 bits, numChunks chunks above 64
FullValue(vd) ==
    HostInt([i \in 1..(IF vd.left > 63 THEN (vd.left + 32) \div 32 ELSE 1) |->
                Digit(vd.constValue.bigvalue, i)])

\* C23: after powercycle() has returned every constant of the module and
\* of the constant pool reads back through the state proxy as its full
\* value
C23_ConstantsReadBack ==
    call.op = "powercycle" =>
        /\ ~call.err
        /\ \A vd \in ConstDefs(hdlmod) :
              /\ HasVar(instance.globals, vd.name)
              /\ StateGet(instance, data8, vd.name) = FullValue(vd)

----------------------------------------------------------------------------
(* Specification SpecReset: resetModule of sim/vga.ts on a module with the *)
(* pins of a Tiny Tapeout design.  uo_out counts the evaluations with the  *)
(* clock high while rst_n is low, one in every repetition of tick2.        *)

ResetCycles == 10

\* the trace records the memory of the model holds: those of two resets
\* and of a few single ticks
ResetRecords == 2 * ResetCycles + MaxTick2Reps + 1

TTModule ==
    makeModule(<< VarDef("clk", 1, FALSE), VarDef("uo_out", 8, TRUE),
                  VarDef("ui_in", 8, FALSE), VarDef("rst_n", 1, FALSE),
                  VarDef("ena", 1, FALSE) >>,
               << makeIf(makeBinop("and", makeVarRef("clk", 1),
                                   makeBinop("eq", makeVarRef("rst_n", 1), makeConst(0, 1), 1),
                                   1),
                         makeAssign("uo_out", 8,
                                    makeBinop("add", makeVarRef("uo_out", 8),
                                              makeConst(1, 8), 8)),
                         Nop) >>,
               << >>, FALSE, << >>)

\* a resetModule that does not write ui_in back
resetModule_cleared(inst, hmod, mem) ==
    With(powercycle(inst, hmod, mem), LAMBDA p :
    IF p.err THEN [mem |-> p.mem, err |-> TRUE, reps |-> 0]
    ELSE With(tick2LoopWith(inst, hmod,
                  StateSet(inst, StateSet(inst, p.mem, "ena", HostNum(1)).mem,
                           "rst_n", HostNum(0)).mem,
                  ResetCycles, 0, ResetCycles), LAMBDA t :
         [mem |-> StateSet(inst, t.mem, "rst_n", HostNum(1)).mem, err |-> t.fault,
          reps |-> t.reps]))

\* resetModule(mod): [mem, err, reps]; err is an error thrown by powercycle
\* or a trap in tick2, reps the repetitions of the loop of tick2(10)
resetModule(inst, hmod, mem) ==
    With(StateGet(inst, mem, "ui_in"), LAMBDA ui_in :
    With(powercycle(inst, hmod, mem), LAMBDA p :
    IF p.err THEN [mem |-> p.mem, err |-> TRUE, reps |-> 0]
    ELSE With(tick2LoopWith(inst, hmod,
                  StateSet(inst,
                           StateSet(inst, StateSet(inst, p.mem, "ena", HostNum(1)).mem,
                                    "rst_n", HostNum(0)).mem,
                           "ui_in", ui_in).mem,
                  ResetCycles, 0, ResetCycles), LAMBDA t :
         IF t.fault THEN [mem |-> t.mem, err |-> TRUE, reps |-> t.reps]
         ELSE [mem |-> StateSet(inst, t.mem, "rst_n", HostNum(1)).mem, err |-> FALSE,
               reps |-> t.reps])))

\* the memory with the first ResetRecords records of the ring
ResetMemory(inst) ==
    [x \in 0..(inst.traceStartOffset + ResetRecords * inst.outputbytes - 1) |-> 0]

ResetInit ==
    /\ hdlmod = TTModule
    /\ instance = NewInstance(hdlmod.vardefs, hdlmod.hasPool, hdlmod.pool)
    /\ data8 = enableTracing(instance, ResetMemory(instance))
    /\ call = [op |-> "init", err |-> FALSE]
    /\ saved = << >>

\* the records written from $$tofs on stay in the part of the ring held
ResetRoom(n) ==
    LdW(data8, Ofs(instance, TRACEOFS)) + n * instance.outputbytes
        <= instance.traceStartOffset + ResetRecords * instance.outputbytes

\* resetModule(mod); pre is the memory before the call
ResetModule ==
    /\ ResetRoom(ResetCycles)
    /\ \E r \in {resetModule(instance, hdlmod, data8)} :
          /\ data8' = r.mem
          /\ call' = [op |-> "resetModule", err |-> r.err, reps |-> r.reps, pre |-> data8]
    /\ UNCHANGED << hdlmod, instance, saved >>

\* state.ui_in = value, state.rst_n = value
PinWrite ==
    /\ \E p \in {<< "ui_in", 0 >>, << "ui_in", 5 >>, << "ui_in", 255 >>,
                 << "rst_n", 0 >>, << "rst_n", 1 >>} :
          data8' = StateSet(instance, data8, p[1], HostNum(p[2])).mem
    /\ call' = [op |-> "write", err |-> FALSE]
    /\ UNCHANGED << hdlmod, instance, saved >>

\* tick2(1), for the first records of the ring
PinTick2 ==
    /\ ResetRoom(2 * ResetCycles + 1)
    /\ \E r \in {tick2(instance, hdlmod, data8, 1)} :
          /\ data8' = r.mem
          /\ call' = [op |-> "tick2", err |-> r.fault, done |-> r.done]
    /\ UNCHANGED << hdlmod, instance, saved >>

ResetNext == ResetModule \/ PinWrite \/ PinTick2

SpecReset == ResetInit /\ [][ResetNext]_vars

\* the k-th record written by the call: uo_out in the slot k - 1 after the
\* write offset the call found
ResetRecord(k) ==
    LdB(data8, LdW(call.pre, Ofs(instance, TRACEOFS)) + (k - 1) * instance.outputbytes
                  + Ofs(instance, "uo_out"))

\* C24: resetModule returns with ui_in as it was before the call, with
\* rst_n = 1, and after exactly 10 clock cycles with rst_n = 0 since the
\* powercycle: tick2 has run 10 repetitions and written 10 records, and
\* the counter the powercycle cleared has seen the clock high with rst_n
\* low once in each of them
C24_ResetPulse ==
    call.op = "resetModule" =>
        /\ ~call.err
        /\ StateGet(instance, data8, "ui_in") = StateGet(instance, call.pre, "ui_in")
        /\ StateGet(instance, data8, "rst_n") = HostNum(1)
        /\ call.reps = ResetCycles
        /\ LdW(data8, Ofs(instance, TRACEOFS))
              = LdW(call.pre, Ofs(instance, TRACEOFS)) + ResetCycles * instance.outputbytes
        /\ \A k \in 1..ResetCycles : ResetRecord(k) = k
        /\ StateGet(instance, data8, "uo_out") = HostNum(ResetCycles)

\* a reset called with ui_in = 255, rst_n = 1 and uo_out counted up to 3
C24_Witness ==
    /\ call.op = "resetModule"
    /\ StateGet(instance, call.pre, "ui_in") = HostNum(255)
    /\ StateGet(instance, call.pre, "rst_n") = HostNum(1)
    /\ StateGet(instance, call.pre, "uo_out") = HostNum(3)
    /\ StateGet(instance, data8, "ui_in") = HostNum(255)

----------------------------------------------------------------------------
(* Specification SpecMask: assignments to a variable d narrower than its   *)
(* container (4 bits in a byte, 12 in two bytes, 20 in four), from not,    *)
(* negate, add, shift left and "and" of an input a of the same width.      *)

makeUnop(op, l, bits) == [op |-> op, left |-> l, dtype |-> [left |-> bits - 1, count |-> 0]]

MaskWidths == {4, 12, 20}

\* the right-hand sides, for the width W
MaskSources(W) ==
    {makeUnop("not", makeVarRef("a", W), W),
     makeUnop("negate", makeVarRef("a", W), W),
     makeBinop("add", makeVarRef("a", W), makeVarRef("a", W), W),
     makeBinop("shiftl", makeVarRef("a", W), makeConst(1, 32), W),
     makeBinop("and", makeVarRef("a", W), makeConst(5, W), W)}

MaskModule(W, src) ==
    makeModule(<< VarDef("a", W, FALSE), VarDef("d", W, TRUE) >>,
               << makeAssign("d", W, src) >>, << >>, FALSE, << >>)

MaskModules == UNION {{MaskModule(W, src) : src \in MaskSources(W)} : W \in MaskWidths}

MaskInit == InitOf(MaskModules)

\* the width of a and d
MaskWidth == hdlmod.vardefs[1].left + 1

\* state.a = value
MaskWrite ==
    /\ \E value \in {0, 1, Pow2(MaskWidth - 1), Pow2(MaskWidth) - 1} :
          \E r \in {StateSet(instance, data8, "a", HostNum(value))} :
              /\ data8' = r.mem
              /\ call' = [op |-> "write", err |-> r.err]
    /\ UNCHANGED << hdlmod, instance, saved >>

MaskNext == MaskWrite \/ Eval

SpecMask == MaskInit /\ [][MaskNext]_vars

\* C25: after an assignment to a scalar narrower than its container the
\* container holds a value below 2^W
C25_StoreMasked ==
    call.op = "eval" =>
        /\ loadmem(data8, Ofs(instance, "d"), lookup(instance.globals, "d").size) >= 0
        /\ loadmem(data8, Ofs(instance, "d"), lookup(instance.globals, "d").size)
              < Pow2(MaskWidth)

----------------------------------------------------------------------------
(* Specification SpecExtend: d = extends(a) for a source a of w            *)
(* significant bits, d of 32 bits, and an extends operation of the result  *)
(* width width (widthminv = w).                                            *)

\* [width, widthminv]
ExtendKinds ==
    {<< 32, w >> : w \in {1, 4, 8, 12, 16, 30}}
    \cup {<< 8, 4 >>, << 12, 4 >>, << 16, 8 >>, << 16, 12 >>, << 24, 16 >>}

ExtendModule(k) ==
    makeModule(<< VarDef("a", k[2], FALSE), VarDef("d", 32, TRUE) >>,
               << makeAssign("d", 32, makeExtends(makeVarRef("a", k[2]), k[1], k[2])) >>,
               << >>, FALSE, << >>)

ExtendModules == {ExtendModule(k) : k \in ExtendKinds}

ExtendInit == InitOf(ExtendModules)

\* state.a = value
ExtendWrite ==
    /\ \E value \in {0, 1, Pow2(MaskWidth - 1), Pow2(MaskWidth) - 1, Pow2(MaskWidth - 1) + 1} :
          \E r \in {StateSet(instance, data8, "a", HostNum(value))} :
              /\ data8' = r.mem
              /\ call' = [op |-> "write", err |-> r.err]
    /\ UNCHANGED << hdlmod, instance, saved >>

ExtendNext == ExtendWrite \/ Eval

SpecExtend == ExtendInit /\ [][ExtendNext]_vars

\* C26: the extends of a source of w significant bits is its low w bits
\* sign-extended from bit w - 1 across the container, for every w
C26_ExtendsFromBit ==
    call.op = "eval" =>
        LdW(data8, Ofs(instance, "d"))
            = RefSigned(loadmem(data8, Ofs(instance, "a"), lookup(instance.globals, "a").size),
                        MaskWidth)

----------------------------------------------------------------------------
(* Wide operations whose destination is one of their own operands.         *)
(* wideAssign2wasm hands the address of the assignment's destination to    *)
(* the generator of the operation, which takes its operand addresses from  *)
(* address2wasm: in a = a op b both are the address of a.                  *)

\* wideBitwiseBinop: one load of each operand and one store per chunk
RECURSIVE wideBitwiseFrom(_, _, _, _, _, _, _)
wideBitwiseFrom(mem, leftAddr, rightAddr, destAddr, numChunks, op, i) ==
    IF i = numChunks THEN mem
    ELSE LET offset     == i * 4
             leftChunk  == LdW(mem, leftAddr + offset)
             rightChunk == LdW(mem, rightAddr + offset)
             result     == IF op = "or" THEN I32Or(leftChunk, rightChunk)
                           ELSE IF op = "and" THEN I32And(leftChunk, rightChunk)
                           ELSE I32Xor(leftChunk, rightChunk)
         IN  wideBitwiseFrom(StW(mem, destAddr + offset, result), leftAddr, rightAddr,
                             destAddr, numChunks, op, i + 1)

wideBitwiseBinop(mem, leftAddr, rightAddr, destAddr, numChunks, op) ==
    wideBitwiseFrom(mem, leftAddr, rightAddr, destAddr, numChunks, op, 0)

\* wideNot: dest[i] = src[i] xor -1
RECURSIVE wideNotFrom(_, _, _, _, _)
wideNotFrom(mem, srcAddr, destAddr, numChunks, i) ==
    IF i = numChunks THEN mem
    ELSE wideNotFrom(StW(mem, destAddr + i * 4, I32Xor(LdW(mem, srcAddr + i * 4), -1)),
                     srcAddr, destAddr, numChunks, i + 1)

wideNot(mem, srcAddr, destAddr, numChunks) == wideNotFrom(mem, srcAddr, destAddr, numChunks, 0)

\* wideNegate: $$nval = (src[i] xor -1) + $$ncarry is stored, then
\* $$ncarry = eqz($$nval) and $$ncarry for every chunk but the last
RECURSIVE wideNegateFrom(_, _, _, _, _, _)
wideNegateFrom(mem, srcAddr, destAddr, numChunks, i, carry) ==
    IF i = numChunks THEN mem
    ELSE LET val == I32Add(I32Xor(LdW(mem, srcAddr + i * 4), -1), carry)
         IN  wideNegateFrom(StW(mem, destAddr + i * 4, val), srcAddr, destAddr, numChunks,
                            i + 1,
                            IF i < numChunks - 1 THEN I32And(I32Eqz(val), carry) ELSE carry)

wideNegate(mem, srcAddr, destAddr, numChunks) ==
    wideNegateFrom(mem, srcAddr, destAddr, numChunks, 0, 1)

AliasWidth == 96

AliasChunks == {0, 1, MinI32, -1}

AliasOperandChunks == {1, -1}

AliasShifts == {0, 1, 31, 32, 33, 64, 95}

AliasBinops == {"add", "sub", "and", "or", "xor"}

AliasShiftOps == {"shiftl", "shiftr", "shiftrs"}

\* form: which operand of the operation is the destination a
\*   "left"  a = a op b     "right"  a = b op a     "both"  a = a op a
AliasModules ==
    {[kind |-> "binop", op |-> o, form |-> f, s |-> 0] :
        o \in AliasBinops, f \in {"left", "right", "both"}}
    \cup {[kind |-> "shiftconst", op |-> o, form |-> "left", s |-> sh] :
             o \in AliasShiftOps, sh \in AliasShifts}
    \cup {[kind |-> "shiftvar", op |-> o, form |-> "left", s |-> 0] : o \in AliasShiftOps}
    \cup {[kind |-> "unop", op |-> o, form |-> "left", s |-> 0] : o \in {"not", "negate"}}

AliasVarDefs ==
    << VarDef("clk", 1, FALSE), VarDef("a", AliasWidth, FALSE), VarDef("b", AliasWidth, FALSE),
       VarDef("shift", 8, FALSE), VarDef("result", AliasWidth, TRUE) >>

AliasInit ==
    /\ hdlmod \in AliasModules
    /\ instance = NewInstance(AliasVarDefs, FALSE, << >>)
    /\ \E a \in WideValues(AliasWidth, AliasChunks) :
       \E b \in (IF hdlmod.kind = "binop" /\ hdlmod.form # "both"
                 THEN WideValues(AliasWidth, AliasOperandChunks) ELSE {<< 0, 0, 0 >>}) :
       \E sh \in (IF hdlmod.kind = "shiftvar" THEN AliasShifts ELSE {0}) :
          \E m1 \in {StateSet(instance, enableTracing(instance, ZeroMemory(instance)),
                               "a", HostInt(a)).mem} :
          \E m2 \in {StateSet(instance, m1, "b", HostInt(b)).mem} :
             data8 = StateSet(instance, m2, "shift", HostNum(sh)).mem
    /\ call = [op |-> "none", pre |-> data8, fault |-> FALSE]
    /\ saved = << >>

\* the code emitted for dest = left op right of the module, run on mem with
\* the given addresses; [mem, fault]
AliasCode(hmod, inst, mem, destAddr, leftAddr, rightAddr) ==
    LET n == NumChunksOf(AliasWidth)
    IN  CASE hmod.op = "add" ->
                [mem |-> wideAdd(mem, leftAddr, rightAddr, destAddr, n), fault |-> FALSE]
          [] hmod.op = "sub" ->
                [mem |-> wideSub(mem, leftAddr, rightAddr, destAddr, n).mem, fault |-> FALSE]
          [] hmod.op \in {"and", "or", "xor"} ->
                [mem |-> wideBitwiseBinop(mem, leftAddr, rightAddr, destAddr, n, hmod.op),
                 fault |-> FALSE]
          [] hmod.op = "not" ->
                [mem |-> wideNot(mem, leftAddr, destAddr, n), fault |-> FALSE]
          [] hmod.op = "negate" ->
                [mem |-> wideNegate(mem, leftAddr, destAddr, n), fault |-> FALSE]
          [] hmod.kind = "shiftconst" /\ hmod.op = "shiftl" ->
                [mem |-> wideShiftLeftConst(mem, destAddr, leftAddr, n, hmod.s),
                 fault |-> FALSE]
          [] hmod.kind = "shiftconst" /\ hmod.op # "shiftl" ->
                [mem |-> wideShiftRightConst(mem, destAddr, leftAddr, n, hmod.s,
                                             hmod.op = "shiftrs"),
                 fault |-> FALSE]
          [] hmod.kind = "shiftvar" /\ hmod.op = "shiftl" ->
                wideShiftLeftVar(mem, inst.membytes, destAddr, leftAddr, n,
                                 LdB(mem, Ofs(inst, "shift")))
          [] hmod.kind = "shiftvar" /\ hmod.op # "shiftl" ->
                wideShiftRightVar(mem, inst.membytes, destAddr, leftAddr, n,
                                  LdB(mem, Ofs(inst, "shift")), hmod.op = "shiftrs")

\* wideAssign2wasm of the module's assignment with destination dest: the
\* operands that the form names as the destination are dest, the other is b
wideAssign2wasm(hmod, inst, mem, dest) ==
    AliasCode(hmod, inst, mem, Ofs(inst, dest),
              IF hmod.form \in {"left", "both"} THEN Ofs(inst, "a") ELSE Ofs(inst, "b"),
              IF hmod.form \in {"right", "both"} THEN Ofs(inst, "a") ELSE Ofs(inst, "b"))

\* the module's assignment, which writes the operand a itself
AliasRun == wideAssign2wasm(hdlmod, instance, data8, "a")

\* _eval of a = a op b, a = b op a or a = a op a
EvalAliasBinop ==
    /\ hdlmod.kind = "binop"
    /\ call.op = "none"
    /\ data8' = AliasRun.mem
    /\ call' = [op |-> hdlmod.op, pre |-> data8, fault |-> AliasRun.fault]
    /\ UNCHANGED << hdlmod, instance, saved >>

\* _eval of a = a shifted by the constant hdlmod.s
EvalAliasShiftConst ==
    /\ hdlmod.kind = "shiftconst"
    /\ call.op = "none"
    /\ data8' = AliasRun.mem
    /\ call' = [op |-> hdlmod.op, pre |-> data8, fault |-> AliasRun.fault]
    /\ UNCHANGED << hdlmod, instance, saved >>

\* _eval of a = a shifted by the variable shift
EvalAliasShiftVar ==
    /\ hdlmod.kind = "shiftvar"
    /\ call.op = "none"
    /\ data8' = AliasRun.mem
    /\ call' = [op |-> hdlmod.op, pre |-> data8, fault |-> AliasRun.fault]
    /\ UNCHANGED << hdlmod, instance, saved >>

\* _eval of a = ~a or a = -a
EvalAliasUnop ==
    /\ hdlmod.kind = "unop"
    /\ call.op = "none"
    /\ data8' = AliasRun.mem
    /\ call' = [op |-> hdlmod.op, pre |-> data8, fault |-> AliasRun.fault]
    /\ UNCHANGED << hdlmod, instance, saved >>

AliasNext == EvalAliasBinop \/ EvalAliasShiftConst \/ EvalAliasShiftVar \/ EvalAliasUnop

SpecAlias == AliasInit /\ [][AliasNext]_vars

\* the same assignment with the distinct destination result, run on the
\* memory the aliased assignment started from
AliasDistinct == wideAssign2wasm(hdlmod, instance, call.pre, "result")

\* C27: a wide operation whose destination is one of its operands (a = a op
\* b, a = b op a, a = a op a; constant and variable shifts, add, subtract,
\* and/or/xor, not, negate) leaves in the destination the chunks the same
\* operation leaves in a distinct destination, and faults exactly when that
\* one does; apart from the destination the memory is the one it started
\* from
C27_AliasSafe ==
    call.op # "none" =>
        /\ call.fault = AliasDistinct.fault
        /\ RdChunks(data8, Ofs(instance, "a"), NumChunksOf(AliasWidth))
             = RdChunks(AliasDistinct.mem, Ofs(instance, "result"), NumChunksOf(AliasWidth))
        /\ \A x \in DOMAIN data8 :
              (x < Ofs(instance, "a") \/ x >= Ofs(instance, "a") + 4 * NumChunksOf(AliasWidth))
                  => data8[x] = call.pre[x]

\* a signed right shift by 33 of a negative value with distinct chunks has
\* run in place: every chunk of the result differs from the chunk it replaced
C27_Witness ==
    /\ call.op = "shiftrs"
    /\ hdlmod.kind = "shiftconst"
    /\ hdlmod.s = 33
    /\ RdChunks(call.pre, Ofs(instance, "a"), 3) = << 1, MinI32, MinI32 >>
    /\ \A i \in 1..3 : LdW(data8, Ofs(instance, "a") + 4 * (i - 1))
                          # LdW(call.pre, Ofs(instance, "a") + 4 * (i - 1))

----------------------------------------------------------------------------
(* Specification SpecRing: the write offset $$tofs of the generated code   *)
(* and the read offset of the host, both started by resetTrace, over       *)
(* several laps of the ring.  written and read count the records           *)
(* copyTraceRec has appended and the calls of nextTrace since the last     *)
(* resetTrace; laps counts the times $$tofs went back to the start.        *)

MaxLaps == 2

RingModules == {ClockModule, ReadModule}

\* n records appended by copyTraceRec, one after the other, to slots the
\* memory does not hold: the stores of the copy loop fall outside the
\* memory and the end of copyTraceRec moves $$tofs
RECURSIVE copyTraceRecs(_, _, _)
copyTraceRecs(inst, mem, n) ==
    IF n = 0 THEN mem
    ELSE IF n = 1 THEN advanceTrace(inst, mem)
    ELSE With(copyTraceRecs(inst, mem, n \div 2), LAMBDA m1 :
              copyTraceRecs(inst, m1, n - n \div 2))

\* the instance after n calls of nextTrace()
RECURSIVE nextTraces(_, _)
nextTraces(inst, n) ==
    IF n = 0 THEN inst
    ELSE IF n = 1 THEN [inst EXCEPT !.traceReadOffset = nextTrace(inst)]
    ELSE With(nextTraces(inst, n \div 2), LAMBDA i1 : nextTraces(i1, n - n \div 2))

RingInit ==
    /\ hdlmod \in RingModules
    /\ instance = NewInstance(hdlmod.vardefs, hdlmod.hasPool, hdlmod.pool)
    /\ data8 = enableTracing(instance, RingMemory(instance))
    /\ call = [op |-> "enableTracing", written |-> 0, read |-> 0, laps |-> 0]
    /\ saved = << >>

\* 1 when the write offset of mem2 is below the one of mem1
Wrapped(mem1, mem2) ==
    IF LdW(mem2, Ofs(instance, TRACEOFS)) < LdW(mem1, Ofs(instance, TRACEOFS)) THEN 1 ELSE 0

\* tick2(iters): iters records are appended
RingWrite ==
    /\ \E iters \in 1..MaxTick2Reps :
          /\ RingRoom(iters)
          /\ \E r \in {tick2(instance, hdlmod, data8, iters)} :
                /\ data8' = r.mem
                /\ call' = [op |-> "tick2", written |-> call.written + r.reps,
                            read |-> call.read, laps |-> call.laps + Wrapped(data8, r.mem)]
    /\ UNCHANGED << hdlmod, instance, saved >>

\* nextTrace(), for a record that has been written
RingNextTrace ==
    /\ call.read < call.written
    /\ instance' = [instance EXCEPT !.traceReadOffset = nextTrace(instance)]
    /\ call' = [call EXCEPT !.op = "nextTrace", !.read = call.read + 1]
    /\ UNCHANGED << hdlmod, data8, saved >>

\* resetTrace()
RingResetTrace ==
    /\ data8' = resetTrace(instance, data8)
    /\ instance' = [instance EXCEPT !.traceReadOffset = instance.traceStartOffset]
    /\ call' = [op |-> "resetTrace", written |-> 0, read |-> 0, laps |-> 0]
    /\ UNCHANGED << hdlmod, saved >>

\* the records between the slots the memory holds: from the first slot
\* past the head of the ring copyTraceRec is run up to the first slot of
\* the tail, and the host calls nextTrace() once for each of these records
RingLap ==
    /\ call.laps < MaxLaps
    /\ call.read = call.written
    /\ WriteSlot(instance, data8) = MaxTick2Reps
    /\ \E n \in {TraceSlots(instance) - 2 * MaxTick2Reps} :
          /\ data8' = copyTraceRecs(instance, data8, n)
          /\ instance' = nextTraces(instance, n)
          /\ call' = [call EXCEPT !.op = "lap", !.written = call.written + n,
                                  !.read = call.read + n]
    /\ UNCHANGED << hdlmod, saved >>

RingNext == RingWrite \/ RingNextTrace \/ RingResetTrace \/ RingLap

SpecRing == RingInit /\ [][RingNext]_vars

\* C29: when, since the last resetTrace(), the host has called nextTrace()
\* as many times as copyTraceRec has appended records, the read offset of
\* the host is the write offset $$tofs, however many times the ring has
\* been gone around
C29_ReadMeetsWrite ==
    call.written = call.read =>
        instance.traceReadOffset = LdW(data8, Ofs(instance, TRACEOFS))

\* the host has caught up with the writer after both went around the ring
\* twice
C29_Witness ==
    /\ call.op = "nextTrace"
    /\ call.written = call.read
    /\ call.laps = MaxLaps
    /\ call.written > 2 * TraceSlots(instance)
    /\ instance.traceReadOffset = SlotAddr(instance, 1)


=============================================================================
